---- MODULE Spec2Model ----
(***************************************************************************)
(* Model of dozyio/workshop: src/fs/utils.rs (toolchain discovery and      *)
(* workshop directory resolution) and src/status.rs (session status).      *)
(*                                                                         *)
(* Text is modelled as a sequence of one-character strings, so that the    *)
(* parsing the code does (rsplit_once, trim, semver::Version::parse) is    *)
(* computed and not assumed.                                               *)
(***************************************************************************)
EXTENDS Integers, Sequences, FiniteSets, TLC

\* ------------------------------------------------------------------------
\* Text helpers (std::str and semver as used by utils.rs)
\* ------------------------------------------------------------------------

Digits == <<"0", "1", "2", "3", "4", "5", "6", "7", "8", "9">>

\* ASCII order of the characters a semver identifier may hold
AsciiOrder ==
    <<"-", "0", "1", "2", "3", "4", "5", "6", "7", "8", "9",
      "A", "B", "C", "D", "E", "F", "G", "H", "I", "J", "K", "L", "M",
      "N", "O", "P", "Q", "R", "S", "T", "U", "V", "W", "X", "Y", "Z",
      "a", "b", "c", "d", "e", "f", "g", "h", "i", "j", "k", "l", "m",
      "n", "o", "p", "q", "r", "s", "t", "u", "v", "w", "x", "y", "z">>

IsDigit(c) == \E i \in 1..Len(Digits) : Digits[i] = c

IsIdentChar(c) == \E i \in 1..Len(AsciiOrder) : AsciiOrder[i] = c

IsSpace(c) == c \in {" ", "\n", "\t", "\r"}

DigitVal(c) == (CHOOSE i \in 1..Len(Digits) : Digits[i] = c) - 1

Rank(c) == CHOOSE i \in 1..Len(AsciiOrder) : AsciiOrder[i] = c

\* index of the last / first occurrence of ch in s, 0 when there is none
LastIndexOf(s, ch) ==
    LET hits == {i \in 1..Len(s) : s[i] = ch}
    IN  IF hits = {} THEN 0 ELSE CHOOSE i \in hits : \A j \in hits : j <= i

FirstIndexOf(s, ch) ==
    LET hits == {i \in 1..Len(s) : s[i] = ch}
    IN  IF hits = {} THEN 0 ELSE CHOOSE i \in hits : \A j \in hits : i <= j

Contains(s, sub) ==
    \E i \in 1..(Len(s) - Len(sub) + 1) : SubSeq(s, i, i + Len(sub) - 1) = sub

\* str::rsplit_once(ch): the text after the last ch, when there is one
RSplitOnceMissesLast(s, ch) ==
    LET i == FirstIndexOf(s, ch)
    IN  IF i = 0 THEN [some |-> FALSE, tail |-> <<>>]
        ELSE [some |-> TRUE, tail |-> SubSeq(s, i + 1, Len(s))]

RSplitOnce(s, ch) ==
    LET i == LastIndexOf(s, ch)
    IN  IF i = 0 THEN [some |-> FALSE, tail |-> <<>>]
        ELSE [some |-> TRUE, tail |-> SubSeq(s, i + 1, Len(s))]

\* str::trim / trim_start / trim_start_matches
TrimStart(s) ==
    LET keep == {i \in 1..Len(s) : ~IsSpace(s[i])}
    IN  IF keep = {} THEN <<>>
        ELSE SubSeq(s, CHOOSE i \in keep : \A j \in keep : i <= j, Len(s))

Trim(s) ==
    LET keep == {i \in 1..Len(s) : ~IsSpace(s[i])}
    IN  IF keep = {} THEN <<>>
        ELSE SubSeq(s, CHOOSE i \in keep : \A j \in keep : i <= j,
                       CHOOSE i \in keep : \A j \in keep : j <= i)

TrimStartMatches(s, ch) ==
    LET keep == {i \in 1..Len(s) : s[i] # ch}
    IN  IF keep = {} THEN <<>>
        ELSE SubSeq(s, CHOOSE i \in keep : \A j \in keep : i <= j, Len(s))

\* the pieces of s between the occurrences of ch (str::split)
RECURSIVE SplitOn(_, _)
SplitOn(s, ch) ==
    LET i == FirstIndexOf(s, ch)
    IN  IF i = 0 THEN <<s>>
        ELSE <<SubSeq(s, 1, i - 1)>> \o SplitOn(SubSeq(s, i + 1, Len(s)), ch)

\* str::lines: split on "\n", without the empty piece after a final "\n"
Lines(s) ==
    LET parts == SplitOn(s, "\n")
    IN  IF Len(parts) > 0 /\ parts[Len(parts)] = <<>>
        THEN SubSeq(parts, 1, Len(parts) - 1) ELSE parts

\* str::split_whitespace().next(): the first run of non-space characters
FirstToken(s) ==
    LET t == TrimStart(s)
        sp == {i \in 1..Len(t) : IsSpace(t[i])}
    IN  IF t = <<>> THEN [some |-> FALSE, tok |-> <<>>]
        ELSE IF sp = {} THEN [some |-> TRUE, tok |-> t]
        ELSE [some |-> TRUE,
              tok |-> SubSeq(t, 1, (CHOOSE i \in sp : \A j \in sp : i <= j) - 1)]

RECURSIVE ToNat(_)
ToNat(p) ==
    IF p = <<>> THEN 0
    ELSE 10 * ToNat(SubSeq(p, 1, Len(p) - 1)) + DigitVal(p[Len(p)])

AllDigits(p) == \A i \in 1..Len(p) : IsDigit(p[i])

\* a semver numeric identifier: digits, no leading zero
NumericOk(p) == Len(p) > 0 /\ AllDigits(p) /\ (Len(p) = 1 \/ p[1] # "0")

\* a semver pre-release identifier
PreIdentOk(p) ==
    /\ Len(p) > 0
    /\ \A i \in 1..Len(p) : IsIdentChar(p[i])
    /\ (AllDigits(p) => NumericOk(p))

NoVersion == [ok |-> FALSE, major |-> 0, minor |-> 0, patch |-> 0, pre |-> <<>>]

\* semver::Version::parse on text without build metadata:
\* MAJOR.MINOR.PATCH, optionally followed by -PRERELEASE
VersionParse(s) ==
    LET d    == FirstIndexOf(s, "-")
        core == IF d = 0 THEN s ELSE SubSeq(s, 1, d - 1)
        pre  == IF d = 0 THEN <<>> ELSE SplitOn(SubSeq(s, d + 1, Len(s)), ".")
        nums == SplitOn(core, ".")
    IN  IF /\ Len(nums) = 3
           /\ \A i \in 1..3 : NumericOk(nums[i])
           /\ \A i \in 1..Len(pre) : PreIdentOk(pre[i])
        THEN [ok |-> TRUE, major |-> ToNat(nums[1]), minor |-> ToNat(nums[2]),
              patch |-> ToNat(nums[3]), pre |-> pre]
        ELSE NoVersion

Sign(n) == IF n < 0 THEN -1 ELSE IF n > 0 THEN 1 ELSE 0

\* ASCII comparison of two identifiers
RECURSIVE TextCmp(_, _)
TextCmp(a, b) ==
    IF a = <<>> /\ b = <<>> THEN 0
    ELSE IF a = <<>> THEN -1
    ELSE IF b = <<>> THEN 1
    ELSE IF a[1] # b[1] THEN Sign(Rank(a[1]) - Rank(b[1]))
    ELSE TextCmp(Tail(a), Tail(b))

\* semver precedence of two pre-release identifiers
IdentCmp(a, b) ==
    IF AllDigits(a) /\ AllDigits(b) THEN Sign(ToNat(a) - ToNat(b))
    ELSE IF AllDigits(a) THEN -1
    ELSE IF AllDigits(b) THEN 1
    ELSE TextCmp(a, b)

RECURSIVE PreCmp(_, _)
PreCmp(a, b) ==
    IF a = <<>> /\ b = <<>> THEN 0
    ELSE IF a = <<>> THEN -1
    ELSE IF b = <<>> THEN 1
    ELSE IF IdentCmp(a[1], b[1]) # 0 THEN IdentCmp(a[1], b[1])
    ELSE PreCmp(Tail(a), Tail(b))

\* Ord for semver::Version: major, minor, patch, then pre-release, where a
\* version without pre-release is above every pre-release of the same triple
VersionCmp(a, b) ==
    IF a.major # b.major THEN Sign(a.major - b.major)
    ELSE IF a.minor # b.minor THEN Sign(a.minor - b.minor)
    ELSE IF a.patch # b.patch THEN Sign(a.patch - b.patch)
    ELSE IF a.pre = <<>> /\ b.pre = <<>> THEN 0
    ELSE IF a.pre = <<>> THEN 1
    ELSE IF b.pre = <<>> THEN -1
    ELSE PreCmp(a.pre, b.pre)


\* ------------------------------------------------------------------------
\* Toolchain discovery (utils.rs, mod application)
\* ------------------------------------------------------------------------

\* Bound: how many of the probed executables exist on the host (launch)
MaxLaunched == 2

\* target_os of the build; "other" has none of the cfg blocks
Platforms == {"windows", "macos", "linux", "other"}

\* stdout texts of the probed commands
PyNew ==
    <<"P", "y", "t", "h", "o", "n", " ", "3", ".", "1", "1", ".", "2",
      "\n">>

PyOld ==
    <<"P", "y", "t", "h", "o", "n", " ", "3", ".", "8", ".", "0", "\n">>

PluginNew ==
    <<"D", "o", "c", "k", "e", "r", " ", "C", "o", "m", "p", "o", "s", "e",
      " ", "v", "e", "r", "s", "i", "o", "n", " ", "v", "2", ".", "3", "6",
      ".", "2", "\n">>

PluginOld ==
    <<"D", "o", "c", "k", "e", "r", " ", "C", "o", "m", "p", "o", "s", "e",
      " ", "v", "e", "r", "s", "i", "o", "n", " ", "v", "2", ".", "2", ".",
      "0", "\n">>

PluginDev ==
    <<"D", "o", "c", "k", "e", "r", " ", "C", "o", "m", "p", "o", "s", "e",
      " ", "v", "e", "r", "s", "i", "o", "n", " ", "v", "2", ".", "3", "6",
      ".", "2", "-", "d", "e", "v", "\n">>

StandaloneNew ==
    <<"d", "o", "c", "k", "e", "r", "-", "c", "o", "m", "p", "o", "s", "e",
      " ", "v", "e", "r", "s", "i", "o", "n", " ", "2", ".", "3", "6", ".",
      "2", "\n">>

StandaloneOld ==
    <<"d", "o", "c", "k", "e", "r", "-", "c", "o", "m", "p", "o", "s", "e",
      " ", "v", "e", "r", "s", "i", "o", "n", " ", "1", ".", "2", "9", ".",
      "2", "\n">>

StandaloneBuild ==
    <<"d", "o", "c", "k", "e", "r", "-", "c", "o", "m", "p", "o", "s", "e",
      " ", "v", "e", "r", "s", "i", "o", "n", " ", "1", ".", "2", "9", ".",
      "2", ",", " ", "b", "u", "i", "l", "d", " ", "5", "b", "e", "c", "e",
      "a", "4", "c", "\n">>

LauncherOldList ==
    <<" ", "-", "3", ".", "8", "-", "6", "4", " ", "*", "\n", " ", "-",
      "2", ".", "7", "-", "6", "4", "\n">>

LauncherNewList ==
    <<" ", "-", "V", ":", "3", ".", "1", "1", " ", "*", "\n">>

\* minimum versions a caller may pass: two well-formed, two malformed
Min3_10_0 ==
    <<"3", ".", "1", "0", ".", "0">>

Min2_5_0 ==
    <<"2", ".", "5", ".", "0">>

Min3_10 ==
    <<"3", ".", "1", "0">>

MinTexts == {Min3_10_0, Min2_5_0, Min3_10, <<>>}


VARIABLES
    platform,   \* target_os the binary was built for
    entry,      \* the function called: "python" | "compose"
    minText,    \* the min_version argument, as text
    pc,         \* "start" | "wait" (awaiting Command::output) | "done"
    strategy,   \* the loop being run: "python" | "launcher" | "plugin" | "standalone"
    idx,        \* position of the awaited candidate in the strategy's list
    probes,     \* every Command::output() so far, in order, with its outcome
    result,     \* what the called function returned
    fs,         \* the filesystem: absolute path (sequence of names) -> node
    cwd,        \* std::env::current_dir(), an absolute path
    envDir,     \* the environment variable WORKSHOPS_DIR
    homeKnown,  \* whether the platform can tell the user's home directory
    stack,      \* the copy_tree calls in progress, innermost last
    call,       \* the init_data_dir call in progress, if any
    ret,        \* the last call that returned, and what it returned
    calls,      \* how many calls were made
    sets,       \* how many setters of the Status were called
    status,     \* the Status held by the session, once loaded
    seenAll,    \* every local workspace store path resolved so far
    seenNow,    \* those resolved since init_data_dir or application::data_dir last ran
    before,     \* the filesystem as it was when the last call began
    configDisk, \* the Config as persisted by Config::save
    merged,     \* the map all_workshops returned to a language aggregation
    fn,         \* the aggregation running, and
    phase,      \* where it is: idle, in its loop over the workshops, or returned
    todo,       \* the workshops the iteration over the map has not yet reached
    collected,  \* the Vec the languages are collected in
    languages   \* the map from spoken language to programming languages

probeVars == <<platform, entry, minText, pc, strategy, idx, probes, result>>

fsVars ==
    <<fs, cwd, envDir, homeKnown, stack, call, ret, calls, sets, status, seenAll, seenNow,
      before, configDisk>>

langVars == <<merged, fn, phase, todo, collected, languages>>

vars == <<probeVars, fsVars, langVars>>

\* ---- candidate lists ---------------------------------------------------

PythonCandidates(os) ==
    <<"python3", "python", "py">> \o
    (CASE os = "windows" ->
            <<"C:\\Python39\\python.exe",
              "C:\\Python38\\python.exe",
              "C:\\Program Files\\Python39\\python.exe",
              "C:\\Program Files\\Python38\\python.exe",
              "C:\\Users\\%USERNAME%\\AppData\\Local\\Programs\\Python\\Python39\\python.exe",
              "C:\\Users\\%USERNAME%\\AppData\\Local\\Programs\\Python\\Python38\\python.exe">>
       [] os = "macos" ->
            <<"/usr/local/bin/python3",
              "/opt/homebrew/bin/python3",
              "/usr/bin/python3",
              "/opt/local/bin/python3",
              "~/.pyenv/shims/python3">>
       [] os = "linux" ->
            <<"/usr/bin/python3",
              "/usr/local/bin/python3",
              "/bin/python3",
              "~/.pyenv/shims/python3">>
       [] OTHER -> <<>>)

DockerCandidates(os) ==
    <<"docker">> \o
    (CASE os = "windows" ->
            <<"docker.exe",
              "C:\\Program Files\\Docker\\Docker\\resources\\bin\\docker.exe">>
       [] os = "macos" ->
            <<"/usr/local/bin/docker",
              "/opt/homebrew/bin/docker",
              "/Applications/Docker.app/Contents/Resources/bin/docker">>
       [] os = "linux" ->
            <<"/usr/bin/docker", "/usr/local/bin/docker", "/snap/bin/docker">>
       [] OTHER -> <<>>)

DockerComposeCandidates(os) ==
    <<"docker-compose">> \o
    (CASE os = "windows" ->
            <<"docker-compose.exe",
              "C:\\Program Files\\Docker\\Docker\\resources\\bin\\docker-compose.exe",
              "C:\\ProgramData\\DockerDesktop\\version-bin\\docker-compose.exe">>
       [] os = "macos" ->
            <<"/usr/local/bin/docker-compose",
              "/opt/homebrew/bin/docker-compose",
              "/Applications/Docker.app/Contents/Resources/bin/docker-compose">>
       [] os = "linux" ->
            <<"/usr/bin/docker-compose",
              "/usr/local/bin/docker-compose",
              "/snap/bin/docker-compose">>
       [] OTHER -> <<>>)

\* The candidate as launched by find_python_executable: %USERNAME% replaced
\* by the user's name on Windows (here "alice"), a leading ~ replaced by the
\* home directory on macOS and Linux (here /home/alice)
ExpandCandidate(os, candidate) ==
    IF os = "windows" THEN
        CASE candidate = "C:\\Users\\%USERNAME%\\AppData\\Local\\Programs\\Python\\Python39\\python.exe"
                -> "C:\\Users\\alice\\AppData\\Local\\Programs\\Python\\Python39\\python.exe"
          [] candidate = "C:\\Users\\%USERNAME%\\AppData\\Local\\Programs\\Python\\Python38\\python.exe"
                -> "C:\\Users\\alice\\AppData\\Local\\Programs\\Python\\Python38\\python.exe"
          [] OTHER -> candidate
    ELSE IF os \in {"macos", "linux"} THEN
        IF candidate = "~/.pyenv/shims/python3"
        THEN "/home/alice/.pyenv/shims/python3" ELSE candidate
    ELSE candidate

\* ---- what a probed command can do --------------------------------------

\* Command::output() failed (no such file, not executable)
LaunchFail == [launch |-> FALSE, success |-> FALSE, stdout |-> <<>>]

Exited(ok, text) == [launch |-> TRUE, success |-> ok, stdout |-> text]

\* outcome of a probe that is still awaited
Pending == [launch |-> FALSE, success |-> FALSE, stdout |-> <<"?">>]

\* a launched child that never exits: its output never arrives
Hung == [launch |-> TRUE, success |-> FALSE, stdout |-> <<"never">>]

Outcomes(strat) ==
    {LaunchFail} \cup
    (CASE strat = "python" ->
            {Exited(TRUE, PyNew), Exited(TRUE, PyOld), Exited(TRUE, <<>>),
             Exited(FALSE, PyNew)}
       [] strat = "launcher" ->
            {Exited(TRUE, LauncherOldList), Exited(TRUE, LauncherNewList),
             Exited(FALSE, LauncherOldList)}
       [] strat = "plugin" ->
            {Exited(TRUE, PluginNew), Exited(TRUE, PluginOld),
             Exited(TRUE, PluginDev), Exited(FALSE, PluginNew)}
       [] strat = "standalone" ->
            {Exited(TRUE, StandaloneNew), Exited(TRUE, StandaloneOld),
             Exited(TRUE, StandaloneBuild), Exited(TRUE, PluginNew),
             Exited(FALSE, StandaloneNew)})

\* how many of the candidates probed so far exist on the host
Launched(ps) ==
    Cardinality({i \in 1..Len(ps) : ps[i].strategy # "launcher" /\ ps[i].outcome.launch})

\* the candidate "py" was probed and launched
PyLaunched(ps) == \E i \in 1..Len(ps) : ps[i].cmd = "py" /\ ps[i].outcome.launch

\* the outcomes the host may give the awaited probe: at most MaxLaunched
\* candidates exist, and py -0 launches exactly when py --version did
HostOutcomes(strat) ==
    {o \in Outcomes(strat) :
        IF strat = "launcher" THEN o.launch = PyLaunched(probes)
        ELSE o.launch => Launched(probes) < MaxLaunched}

\* ---- the parse_version helpers and the comparison ------------------------

\* parse_version of find_python_executable and try_docker_compose_standalone
ParseVersionSpace(output) ==
    LET r == RSplitOnce(output, " ")
    IN  IF r.some THEN VersionParse(Trim(r.tail)) ELSE NoVersion

\* parse_version of try_docker_compose_plugin
ParseVersionV(output) ==
    LET r == RSplitOnce(output, "v")
    IN  IF r.some THEN VersionParse(Trim(r.tail)) ELSE NoVersion

ParseVersion(strat, output) ==
    IF strat = "plugin" THEN ParseVersionV(output) ELSE ParseVersionSpace(output)

\* version >= min_version
MeetsAnyVersion(version, min) == TRUE

MeetsMinimum(version, min) == VersionCmp(version, min) >= 0

\* the nested ifs on the awaited output: Ok, status.success(), a parsed
\* version, version >= min_version
IgnoresExitStatus(strat, o, min) ==
    /\ o.launch
    /\ ParseVersion(strat, o.stdout).ok
    /\ MeetsMinimum(ParseVersion(strat, o.stdout), min)

Accepts(strat, o, min) ==
    /\ o.launch
    /\ o.success
    /\ ParseVersion(strat, o.stdout).ok
    /\ MeetsMinimum(ParseVersion(strat, o.stdout), min)

\* py -0 fallback: the first line containing "-3", its first token, with
\* the leading '-' characters removed
LauncherPick(o) ==
    LET ls   == Lines(o.stdout)
        hits == {i \in 1..Len(ls) : Contains(ls[i], <<"-", "3">>)}
        line == ls[CHOOSE i \in hits : \A j \in hits : i <= j]
    IN  IF o.launch /\ o.success /\ hits # {} /\ FirstToken(line).some
        THEN [some |-> TRUE, arg |-> TrimStartMatches(FirstToken(line).tok, "-")]
        ELSE [some |-> FALSE, arg |-> <<>>]

\* ---- results ------------------------------------------------------------

NoResult == [status |-> "none", exe |-> "", arg |-> <<>>, error |-> ""]

\* Ok(candidate.to_string())
Found(exe) == [status |-> "ok", exe |-> exe, arg |-> <<>>, error |-> ""]

\* Ok(format!("py -{}", version))
FoundLauncher(arg) == [status |-> "ok", exe |-> "py", arg |-> arg, error |-> ""]

Failed(error) == [status |-> "err", exe |-> "", arg |-> <<>>, error |-> error]

Probe(strat, cmd, args) ==
    [strategy |-> strat, cmd |-> cmd, args |-> args, outcome |-> Pending]


\* the next command spawned without awaiting the output of the last one
CompletedNotAwaited(o) == probes

\* probes with the awaited (last) probe completed as o
Completed(o) == [probes EXCEPT ![Len(probes)].outcome = o]


\* ---- the probing loops ---------------------------------------------------

Candidates(strat, os) ==
    CASE strat = "python" -> PythonCandidates(os)
      [] strat = "plugin" -> DockerCandidates(os)
      [] strat = "standalone" -> DockerComposeCandidates(os)
      [] OTHER -> <<"py">>

Args(strat) ==
    CASE strat = "python" -> <<"--version">>
      [] strat = "plugin" -> <<"compose", "version">>
      [] strat = "standalone" -> <<"--version">>
      [] OTHER -> <<"-0">>

\* Command::new(candidate).arg(..).output() for candidate i of a strategy
Launch(strat, os, i) ==
    Probe(strat,
          IF strat = "python" THEN ExpandCandidate(os, Candidates(strat, os)[i])
          ELSE Candidates(strat, os)[i],
          Args(strat))

\* what a loop does once the awaited output is there: return, or await the
\* output of the next command
Return(r) == [kind |-> "return", result |-> r, strategy |-> "", idx |-> 0]

Spawn(strat, i) == [kind |-> "spawn", result |-> NoResult, strategy |-> strat, idx |-> i]

\* find_python_executable, one turn of the for loop and what follows it
PythonStepNoLauncher(os, i, cmd, o, min) ==
    IF Accepts("python", o, min) THEN Return(Found(cmd))
    ELSE IF i < Len(PythonCandidates(os)) THEN Spawn("python", i + 1)
    ELSE Return(Failed("NoPythonExecutable"))

PythonStepStopsAtFailure(os, i, cmd, o, min) ==
    IF Accepts("python", o, min) THEN Return(Found(cmd))
    ELSE IF o.launch /\ i < Len(PythonCandidates(os)) THEN Spawn("python", i + 1)
    ELSE IF o.launch /\ os = "windows" THEN Spawn("launcher", 1)
    ELSE Return(Failed("NoPythonExecutable"))

PythonStep(os, i, cmd, o, min) ==
    IF Accepts("python", o, min) THEN Return(Found(cmd))
    ELSE IF i < Len(PythonCandidates(os)) THEN Spawn("python", i + 1)
    ELSE IF os = "windows" THEN Spawn("launcher", 1)
    ELSE Return(Failed("NoPythonExecutable"))

\* find_python_executable, the py launcher fallback (target_os = "windows")
LauncherStep(o) ==
    IF LauncherPick(o).some THEN Return(FoundLauncher(LauncherPick(o).arg))
    ELSE Return(Failed("NoPythonExecutable"))

\* try_docker_compose_plugin
PluginStepSkipsOne(os, i, cmd, o, min) ==
    IF Accepts("plugin", o, min) THEN Return(Found(cmd))
    ELSE IF i + 1 < Len(DockerCandidates(os)) THEN Spawn("plugin", i + 2)
    ELSE Return(Failed("NoDockerComposeExecutable"))

PluginStep(os, i, cmd, o, min) ==
    IF Accepts("plugin", o, min) THEN Return(Found(cmd))
    ELSE IF i < Len(DockerCandidates(os)) THEN Spawn("plugin", i + 1)
    ELSE Return(Failed("NoDockerComposeExecutable"))

\* try_docker_compose_standalone
StandaloneStep(os, i, cmd, o, min) ==
    IF Accepts("standalone", o, min) THEN Return(Found(cmd))
    ELSE IF i < Len(DockerComposeCandidates(os)) THEN Spawn("standalone", i + 1)
    ELSE Return(Failed("NoDockerComposeExecutable"))

\* find_docker_compose_executable: the plugin strategy, then the standalone
\* one when the plugin strategy returned Err
FirstStrategyStandalone == "standalone"

FirstStrategy == "plugin"

ComposeStepPluginOnly(strat, os, i, cmd, o, min) ==
    IF strat = "plugin" THEN PluginStep(os, i, cmd, o, min)
    ELSE StandaloneStep(os, i, cmd, o, min)

ComposeStep(strat, os, i, cmd, o, min) ==
    LET r == IF strat = "plugin" THEN PluginStep(os, i, cmd, o, min)
             ELSE StandaloneStep(os, i, cmd, o, min)
    IN  IF strat = "plugin" /\ r.kind = "return" /\ r.result.status = "err"
        THEN Spawn("standalone", 1)
        ELSE r

\* Version::parse(min_version.as_ref()) of the two public functions
MinParseLenient(text) ==
    IF VersionParse(text).ok THEN VersionParse(text)
    ELSE [ok |-> TRUE, major |-> 0, minor |-> 0, patch |-> 0, pre |-> <<>>]

MinParse(text) == VersionParse(text)

\* the awaited output arrived as o and the loop took step st
Take(st, o) ==
    IF st.kind = "return"
    THEN /\ result' = st.result
         /\ pc' = "done"
         /\ probes' = Completed(o)
         /\ UNCHANGED <<strategy, idx>>
    ELSE /\ strategy' = st.strategy
         /\ idx' = st.idx
         /\ probes' = Append(Completed(o), Launch(st.strategy, platform, st.idx))
         /\ UNCHANGED <<pc, result>>

Awaited == probes[Len(probes)]

\* a timeout that wakes the flow although the child has not exited
ResumableAfterTimeout == TRUE

\* Command::output().await resolves only with the output of a child that has
\* exited or failed to launch; nothing else (a timer, a cancellation) wakes
\* the flow
Resumable == Awaited.outcome = Pending

\* the awaited child turns out never to exit
ChildHangs ==
    /\ pc = "wait"
    /\ Awaited.outcome = Pending
    /\ probes' = Completed(Hung)
    /\ UNCHANGED <<platform, entry, minText, pc, strategy, idx, result>>
    /\ UNCHANGED <<fsVars, langVars>>

\* find_python_executable: min_version does not parse
FindPythonBadMin ==
    /\ pc = "start" /\ entry = "python"
    /\ ~MinParse(minText).ok
    /\ result' = Failed("NoPythonExecutable")
    /\ pc' = "done"
    /\ UNCHANGED <<platform, entry, minText, strategy, idx, probes>>
    /\ UNCHANGED <<fsVars, langVars>>

\* find_python_executable up to the first .await
FindPythonBegin ==
    /\ pc = "start" /\ entry = "python"
    /\ MinParse(minText).ok
    /\ strategy' = "python"
    /\ idx' = 1
    /\ probes' = Append(probes, Launch("python", platform, 1))
    /\ pc' = "wait"
    /\ UNCHANGED <<platform, entry, minText, result>>
    /\ UNCHANGED <<fsVars, langVars>>

\* find_python_executable resumed with a candidate's output
PythonProbeDone ==
    /\ pc = "wait" /\ strategy = "python"
    /\ Resumable
    /\ \E o \in HostOutcomes("python") :
          Take(PythonStep(platform, idx, Awaited.cmd, o, MinParse(minText)), o)
    /\ UNCHANGED <<platform, entry, minText>>
    /\ UNCHANGED <<fsVars, langVars>>

\* find_python_executable resumed with the output of py -0
LauncherProbeDone ==
    /\ pc = "wait" /\ strategy = "launcher"
    /\ Resumable
    /\ \E o \in HostOutcomes("launcher") : Take(LauncherStep(o), o)
    /\ UNCHANGED <<platform, entry, minText>>
    /\ UNCHANGED <<fsVars, langVars>>

\* find_docker_compose_executable: min_version does not parse
FindComposeBadMin ==
    /\ pc = "start" /\ entry = "compose"
    /\ ~MinParse(minText).ok
    /\ result' = Failed("NoDockerComposeExecutable")
    /\ pc' = "done"
    /\ UNCHANGED <<platform, entry, minText, strategy, idx, probes>>
    /\ UNCHANGED <<fsVars, langVars>>

\* find_docker_compose_executable up to the first .await
FindComposeBegin ==
    /\ pc = "start" /\ entry = "compose"
    /\ MinParse(minText).ok
    /\ strategy' = FirstStrategy
    /\ idx' = 1
    /\ probes' = Append(probes, Launch(FirstStrategy, platform, 1))
    /\ pc' = "wait"
    /\ UNCHANGED <<platform, entry, minText, result>>
    /\ UNCHANGED <<fsVars, langVars>>

\* find_docker_compose_executable resumed inside try_docker_compose_plugin
PluginProbeDone ==
    /\ pc = "wait" /\ strategy = "plugin"
    /\ Resumable
    /\ \E o \in HostOutcomes("plugin") :
          Take(ComposeStep("plugin", platform, idx, Awaited.cmd, o, MinParse(minText)), o)
    /\ UNCHANGED <<platform, entry, minText>>
    /\ UNCHANGED <<fsVars, langVars>>

\* find_docker_compose_executable resumed inside try_docker_compose_standalone
StandaloneProbeDone ==
    /\ pc = "wait" /\ strategy = "standalone"
    /\ Resumable
    /\ \E o \in HostOutcomes("standalone") :
          Take(ComposeStep("standalone", platform, idx, Awaited.cmd, o, MinParse(minText)), o)
    /\ UNCHANGED <<platform, entry, minText>>
    /\ UNCHANGED <<fsVars, langVars>>




\* ------------------------------------------------------------------------
\* Properties of toolchain discovery
\* ------------------------------------------------------------------------

MinOk == VersionParse(minText).ok

\* the probe launched, exited with status zero, and its stdout parses (by the
\* strategy's rule) to a version at or above the requested minimum
Qualifies(p) ==
    /\ p.outcome.launch
    /\ p.outcome.success
    /\ ParseVersion(p.strategy, p.outcome.stdout).ok
    /\ VersionCmp(ParseVersion(p.strategy, p.outcome.stdout), VersionParse(minText)) >= 0

\* the order in which a flow probes: the candidate lists of the source, and
\* for the Python flow on Windows the launcher query after them
FlowOrder ==
    IF entry = "python"
    THEN [i \in 1..Len(PythonCandidates(platform)) |->
            Probe("python", ExpandCandidate(platform, PythonCandidates(platform)[i]),
                  <<"--version">>)]
    ELSE [i \in 1..Len(DockerCandidates(platform)) |->
            Probe("plugin", DockerCandidates(platform)[i], <<"compose", "version">>)]
         \o
         [i \in 1..Len(DockerComposeCandidates(platform)) |->
            Probe("standalone", DockerComposeCandidates(platform)[i], <<"--version">>)]

IsLauncherProbe(p) == p.strategy = "launcher" /\ p.cmd = "py" /\ p.args = <<"-0">>

SameCommand(p, q) == p.strategy = q.strategy /\ p.cmd = q.cmd /\ p.args = q.args

\* the candidate probes made so far are the first candidates of the flow, in
\* list order, each made once
InListOrder ==
    \A i \in 1..Len(probes) :
        IF i <= Len(FlowOrder) THEN SameCommand(probes[i], FlowOrder[i])
        ELSE /\ i = Len(FlowOrder) + 1
             /\ entry = "python" /\ platform = "windows"
             /\ IsLauncherProbe(probes[i])

CandidateProbes == {i \in 1..Len(probes) : ~IsLauncherProbe(probes[i])}

ToolError == IF entry = "python" THEN "NoPythonExecutable" ELSE "NoDockerComposeExecutable"

\* C1: whenever a flow returns an executable, the version that executable
\* reported was parsed to a semantic version >= the requested minimum
C1_FoundVersionMeetsMinimum ==
    (pc = "done" /\ result.status = "ok") =>
        \E i \in 1..Len(probes) :
            /\ probes[i].cmd = result.exe
            /\ probes[i].outcome.launch
            /\ \E v \in {ParseVersionSpace(probes[i].outcome.stdout),
                         ParseVersionV(probes[i].outcome.stdout)} :
                  v.ok /\ VersionCmp(v, VersionParse(minText)) >= 0

\* C2: the probes follow the list order, a qualifying candidate ends the flow
\* at once and is the one returned, every candidate before it was probed and
\* did not qualify, and nothing after it is probed
C2_FirstQualifyingCandidateWins ==
    /\ InListOrder
    /\ \A i \in CandidateProbes :
          Qualifies(probes[i]) =>
              /\ i = Len(probes)
              /\ pc = "done"
              /\ result = Found(probes[i].cmd)
              /\ \A j \in 1..(i - 1) : ~Qualifies(probes[j])
    /\ (pc = "done" /\ result.status = "ok" /\ ~IsLauncherProbe(probes[Len(probes)])) =>
          Qualifies(probes[Len(probes)])

\* C2 witness: the first candidate failed to launch, the second reported a
\* version below the minimum, the third qualified and was returned
C2_Witness ==
    /\ pc = "done" /\ result.status = "ok" /\ Len(probes) = 3
    /\ ~probes[1].outcome.launch
    /\ probes[2].outcome.launch /\ probes[2].outcome.success
    /\ ParseVersion(probes[2].strategy, probes[2].outcome.stdout).ok
    /\ ~Qualifies(probes[2])
    /\ result.exe = FlowOrder[3].cmd

AllCandidatesProbed ==
    /\ Len(probes) >= Len(FlowOrder)
    /\ \A i \in 1..Len(FlowOrder) : SameCommand(probes[i], FlowOrder[i])

NoCandidateQualifies == \A i \in CandidateProbes : ~Qualifies(probes[i])

\* C3 as stated: when every candidate fails, every candidate was probed and
\* the flow returns its not-found error
C3_AllFailingReturnsNotFound ==
    (pc = "done" /\ MinOk /\ NoCandidateQualifies) =>
        /\ AllCandidatesProbed
        /\ result = Failed(ToolError)

\* C3 amended: when every candidate fails, every candidate was probed, in
\* order, whatever the failures were, and the flow returns its not-found
\* error, unless it is the Python flow built for Windows, which then queries
\* the py launcher and returns "py -<version>" when the listing names a 3.x
C3_AllFailingProbesAllThenNotFoundOrLauncher ==
    (pc = "done" /\ MinOk /\ NoCandidateQualifies) =>
        /\ AllCandidatesProbed
        /\ InListOrder
        /\ IF entry = "python" /\ platform = "windows"
           THEN /\ Len(probes) = Len(FlowOrder) + 1
                /\ IsLauncherProbe(probes[Len(probes)])
                /\ result = IF LauncherPick(probes[Len(probes)].outcome).some
                            THEN FoundLauncher(LauncherPick(probes[Len(probes)].outcome).arg)
                            ELSE Failed("NoPythonExecutable")
           ELSE /\ Len(probes) = Len(FlowOrder)
                /\ result = Failed(ToolError)

\* C3 witness: a flow that ended not-found after candidates failed in
\* different ways: one did not launch, one launched and was rejected
C3_Witness ==
    /\ pc = "done" /\ MinOk /\ result = Failed(ToolError)
    /\ \E i, j \in CandidateProbes :
          /\ ~probes[i].outcome.launch
          /\ probes[j].outcome.launch /\ ~Qualifies(probes[j])

PluginProbes == {i \in 1..Len(probes) : probes[i].strategy = "plugin"}

StandaloneProbes == {i \in 1..Len(probes) : probes[i].strategy = "standalone"}

\* C4: a standalone candidate is probed only after every plugin candidate was
\* probed and failed; a qualifying plugin candidate is returned with no
\* standalone probe made; when both strategies fail the result is
\* NoDockerComposeExecutable
C4_PluginBeforeStandalone ==
    entry = "compose" =>
        /\ StandaloneProbes # {} =>
              /\ Cardinality(PluginProbes) = Len(DockerCandidates(platform))
              /\ \A i \in PluginProbes :
                    /\ \A j \in StandaloneProbes : i < j
                    /\ ~Qualifies(probes[i])
        /\ \A i \in PluginProbes :
              Qualifies(probes[i]) =>
                  /\ StandaloneProbes = {}
                  /\ pc = "done"
                  /\ result = Found(probes[i].cmd)
        /\ (pc = "done" /\ MinOk /\ NoCandidateQualifies) =>
              /\ Cardinality(PluginProbes) = Len(DockerCandidates(platform))
              /\ Cardinality(StandaloneProbes) = Len(DockerComposeCandidates(platform))
              /\ result = Failed("NoDockerComposeExecutable")

\* C4 witness: the plugin strategy failed although a docker launched, and the
\* standalone strategy then found a candidate
C4_Witness ==
    /\ entry = "compose" /\ pc = "done" /\ result.status = "ok"
    /\ \E i \in PluginProbes : probes[i].outcome.launch
    /\ probes[Len(probes)].strategy = "standalone"

\* C5: a minimum version that does not parse makes both functions return
\* their error at once, with no command launched
C5_MalformedMinimumFailsAtOnce ==
    ~MinOk =>
        /\ probes = <<>>
        /\ pc \in {"start", "done"}
        /\ pc = "done" => result = Failed(ToolError)

\* C5 witness: a call with a malformed minimum has returned
C5_Witness == ~MinOk /\ pc = "done" /\ minText = Min3_10

\* C1 failing state: the launcher fallback returned an interpreter
C1_LauncherReturned ==
    pc = "done" /\ result.status = "ok" /\ IsLauncherProbe(probes[Len(probes)])



\* ------------------------------------------------------------------------
\* Paths and the filesystem (std::path, std::fs as used by utils.rs)
\* ------------------------------------------------------------------------

\* Bound: the longest path the filesystem accepts, in components (PATH_MAX)
MaxDepth == 6

\* Bound: how many calls a session makes
MaxCalls == 3

APPLICATION_PARTS == <<"io", "libp2p", "workshop">>

\* a PathBuf: absolute or relative, and its components
AbsPath(segs) == [abs |-> TRUE, segs |-> segs]

RelPath(segs) == [abs |-> FALSE, segs |-> segs]

\* PathBuf::from("")
EmptyPath == RelPath(<<>>)

\* Path::join with a single relative component
Join(p, name) == [p EXCEPT !.segs = Append(@, name)]

\* where the operating system finds path p, for a process whose working
\* directory is dir
Resolve(dir, p) == IF p.abs THEN p.segs ELSE dir \o p.segs

Parent(a) == SubSeq(a, 1, Len(a) - 1)

Prefixes(a) == {SubSeq(a, 1, k) : k \in 0..Len(a)}

IsPrefix(a, b) == Len(a) <= Len(b) /\ SubSeq(b, 1, Len(a)) = a

Dir == [kind |-> "dir", data |-> <<>>]

File(d) == [kind |-> "file", data |-> d]

\* Path::exists, Path::is_dir; the empty path names nothing
Exists(f, dir, p) == p # EmptyPath /\ Resolve(dir, p) \in DOMAIN f

IsDir(f, dir, p) == Exists(f, dir, p) /\ f[Resolve(dir, p)].kind = "dir"

IsFile(f, dir, p) == Exists(f, dir, p) /\ f[Resolve(dir, p)].kind = "file"

\* the names std::fs::read_dir lists for directory a
Children(f, a) == {q[Len(q)] : q \in {r \in DOMAIN f : Len(r) = Len(a) + 1 /\ Parent(r) = a}}

Put(f, a, node) == [q \in DOMAIN f \cup {a} |-> IF q = a THEN node ELSE f[q]]

\* f with a and every missing ancestor of a made a directory
WithDirs(f, a) ==
    [q \in DOMAIN f \cup Prefixes(a) |-> IF q \in DOMAIN f THEN f[q] ELSE Dir]

IoOk(f) == [ok |-> TRUE, fs |-> f, err |-> ""]

IoErr(f, e) == [ok |-> FALSE, fs |-> f, err |-> e]

\* std::fs::create_dir_all: Ok for the empty path and for an existing
\* directory, an error when the path or an ancestor is a file, otherwise
\* every missing component is created
CreateDirAllOverFile(f, dir, p) ==
    IF p = EmptyPath THEN IoOk(f)
    ELSE IF Len(Resolve(dir, p)) > MaxDepth THEN IoErr(f, "Io:NameTooLong")
    ELSE IoOk([q \in DOMAIN f \cup Prefixes(Resolve(dir, p)) |->
                  IF q \in DOMAIN f /\ ~IsPrefix(q, Resolve(dir, p)) THEN f[q] ELSE Dir])

CreateDirAll(f, dir, p) ==
    IF p = EmptyPath THEN IoOk(f)
    ELSE IF \E q \in Prefixes(Resolve(dir, p)) : q \in DOMAIN f /\ f[q].kind = "file"
         THEN IoErr(f, "Io:NotADirectory")
    ELSE IF Len(Resolve(dir, p)) > MaxDepth THEN IoErr(f, "Io:NameTooLong")
    ELSE IoOk(WithDirs(f, Resolve(dir, p)))

\* std::fs::copy(from, to), from being a regular file: the outcomes the
\* platform can give. Copying a file onto itself truncates it (Linux,
\* macOS) or fails (Windows).
CopyOutcomesKeepSelf(f, dir, from, to) ==
    LET a == Resolve(dir, from)
        b == Resolve(dir, to)
    IN  IF ~IsFile(f, dir, from) THEN {IoErr(f, "Io:NotFound")}
        ELSE IF IsDir(f, dir, to) THEN {IoErr(f, "Io:IsADirectory")}
        ELSE IF ~(Parent(b) \in DOMAIN f /\ f[Parent(b)].kind = "dir")
             THEN {IoErr(f, "Io:NotFound")}
        ELSE {IoOk(Put(f, b, f[a]))}

CopyOutcomesEmpty(f, dir, from, to) ==
    LET a == Resolve(dir, from)
        b == Resolve(dir, to)
    IN  IF ~IsFile(f, dir, from) THEN {IoErr(f, "Io:NotFound")}
        ELSE IF IsDir(f, dir, to) THEN {IoErr(f, "Io:IsADirectory")}
        ELSE IF ~(Parent(b) \in DOMAIN f /\ f[Parent(b)].kind = "dir")
             THEN {IoErr(f, "Io:NotFound")}
        ELSE {IoOk(Put(f, b, File(<<>>)))}

CopyOutcomes(f, dir, from, to) ==
    LET a == Resolve(dir, from)
        b == Resolve(dir, to)
    IN  IF ~IsFile(f, dir, from) THEN {IoErr(f, "Io:NotFound")}
        ELSE IF IsDir(f, dir, to) THEN {IoErr(f, "Io:IsADirectory")}
        ELSE IF ~(Parent(b) \in DOMAIN f /\ f[Parent(b)].kind = "dir")
             THEN {IoErr(f, "Io:NotFound")}
        ELSE IF a = b
             THEN {IoOk(Put(f, b, File(<<>>))), IoErr(f, "Io:SharingViolation")}
        ELSE {IoOk(Put(f, b, f[a]))}

\* ---- the two data directories -------------------------------------------

NoPath == [some |-> FALSE, path |-> EmptyPath]

SomePath(p) == [some |-> TRUE, path |-> p]

\* std::env::var("WORKSHOPS_DIR"): Ok(text) only when the variable is set
\* and its value is valid Unicode
EnvUnset == [set |-> FALSE, unicode |-> TRUE, value |-> EmptyPath]

EnvSet(p) == [set |-> TRUE, unicode |-> TRUE, value |-> p]

EnvNotUnicode(p) == [set |-> TRUE, unicode |-> FALSE, value |-> p]

HomeDir == <<"home">>

\* the bundle identifier qualifier.organization.application
BundleId(qualifier, organization, application) ==
    IF <<qualifier, organization, application>> = <<"io", "libp2p", "workshop">>
    THEN "io.libp2p.workshop" ELSE "other.bundle.id"

\* directories::ProjectDirs::from(qualifier, organization, application)
\* .data_dir(), which exists only when the home directory is known
ProjectDataDir(os, known, parts) ==
    IF ~known THEN NoPath
    ELSE CASE os = "windows" ->
                SomePath(AbsPath(HomeDir \o <<"AppData", "Roaming", parts[2], parts[3], "data">>))
           [] os = "macos" ->
                SomePath(AbsPath(HomeDir \o <<"Library", "Application Support",
                                             BundleId(parts[1], parts[2], parts[3])>>))
           [] OTHER ->
                SomePath(AbsPath(HomeDir \o <<".local", "share", parts[3]>>))

\* application::data_dir
PathOk(p, f) == [ok |-> TRUE, path |-> p, fs |-> f, err |-> ""]

PathErr(f, e) == [ok |-> FALSE, path |-> EmptyPath, fs |-> f, err |-> e]

ApplicationDataDirNoCreate(f, dir, env, os, known) ==
    LET chosen == IF env.set /\ env.unicode THEN SomePath(env.value)
                  ELSE ProjectDataDir(os, known, APPLICATION_PARTS)
    IN  IF ~chosen.some THEN PathErr(f, "ApplicationDirsNotFound")
        ELSE PathOk(chosen.path, f)

ApplicationDataDir(f, dir, env, os, known) ==
    LET chosen == IF env.set /\ env.unicode THEN SomePath(env.value)
                  ELSE ProjectDataDir(os, known, APPLICATION_PARTS)
        made   == CreateDirAll(f, dir, chosen.path)
    IN  IF ~chosen.some THEN PathErr(f, "ApplicationDirsNotFound")
        ELSE IF ~made.ok THEN PathErr(f, made.err)
        ELSE PathOk(chosen.path, made.fs)

\* workshops::data_dir: the loop over current_dir and its ancestors
RECURSIVE SearchUpIgnoringKind(_, _)
SearchUpIgnoringKind(f, dir) ==
    IF Exists(f, dir, AbsPath(Append(dir, ".workshops")))
    THEN SomePath(AbsPath(Append(dir, ".workshops")))
    ELSE IF dir = <<>> THEN NoPath
    ELSE SearchUpIgnoringKind(f, Parent(dir))

RECURSIVE SearchUp(_, _)
SearchUp(f, dir) ==
    IF /\ Exists(f, dir, AbsPath(Append(dir, ".workshops")))
       /\ IsDir(f, dir, AbsPath(Append(dir, ".workshops")))
    THEN SomePath(AbsPath(Append(dir, ".workshops")))
    ELSE IF dir = <<>> THEN NoPath      \* PathBuf::pop returned false
    ELSE SearchUp(f, Parent(dir))

WorkshopsDataDirCwdOnly(f, dir) ==
    IF IsDir(f, dir, AbsPath(Append(dir, ".workshops")))
    THEN SomePath(AbsPath(Append(dir, ".workshops"))) ELSE NoPath

WorkshopsDataDir(f, dir) == SearchUp(f, dir)


\* ---- workshops::copy_tree and workshops::init_data_dir --------------------

\* a copy_tree call in progress: its source and target, the names read_dir
\* listed when it was opened, and the entries the for loop has taken
Frame(src, tgt, listed) == [src |-> src, tgt |-> tgt, listed |-> listed, seen |-> {}]

NoFrame == Frame(EmptyPath, EmptyPath, {})

EnterOk(f, frame) == [ok |-> TRUE, fs |-> f, err |-> "", frame |-> frame]

EnterErr(f, e) == [ok |-> FALSE, fs |-> f, err |-> e, frame |-> NoFrame]

\* copy_tree up to the for loop: the source check, create_dir_all(target),
\* read_dir(source)
CopyTreeEnter(f, dir, src, tgt) ==
    LET made == CreateDirAll(f, dir, tgt)
    IN  IF ~Exists(f, dir, src) \/ ~IsDir(f, dir, src)
        THEN EnterErr(f, "WorkshopDataDirNotFound")
        ELSE IF ~made.ok THEN EnterErr(made.fs, made.err)
        ELSE EnterOk(made.fs, Frame(src, tgt, Children(made.fs, Resolve(dir, src))))

\* what a call returned
\* Option::None of a Status or Config field
Null == "<none>"

\* a HashMap with no entry
NoMap == [k \in {} |-> Null]

NoRet ==
    [op |-> "none", arg |-> "", ok |-> FALSE, some |-> FALSE, path |-> EmptyPath, err |-> "",
     map |-> NoMap, default |-> FALSE]

RetPath(op, arg, p) ==
    [op |-> op, arg |-> arg, ok |-> TRUE, some |-> TRUE, path |-> p, err |-> "", map |-> NoMap]

RetNone(op, arg) ==
    [op |-> op, arg |-> arg, ok |-> TRUE, some |-> FALSE, path |-> EmptyPath, err |-> "",
     map |-> NoMap, default |-> FALSE]

RetErr(op, arg, e) ==
    [op |-> op, arg |-> arg, ok |-> FALSE, some |-> FALSE, path |-> EmptyPath, err |-> e,
     map |-> NoMap, default |-> FALSE]

RetMap(op, m) ==
    [op |-> op, arg |-> "", ok |-> TRUE, some |-> TRUE, path |-> EmptyPath, err |-> "",
     map |-> m, default |-> FALSE]

\* a Status setter was called with value v and the given default flag; it
\* returns nothing
RetSet(op, v, default) ==
    [op |-> op, arg |-> v, ok |-> TRUE, some |-> FALSE, path |-> EmptyPath, err |-> "",
     map |-> NoMap, default |-> default]

Idle == [active |-> FALSE, workshop |-> "", workshops_dir |-> EmptyPath]

Busy(w, wdir) == [active |-> TRUE, workshop |-> w, workshops_dir |-> wdir]

\* the workshop names a caller passes to init_data_dir
WorkshopArgs == {"w1", "y", "nope"}

\* the directory init_data_dir anchors the local workspace store at
InitAnchorNearestStore(f, dir) ==
    IF WorkshopsDataDir(f, dir).some THEN WorkshopsDataDir(f, dir).path
    ELSE Join(AbsPath(dir), ".workshops")

InitAnchor(f, dir) == Join(AbsPath(dir), ".workshops")

\* init_data_dir looking the workshop up before it creates <cwd>/.workshops
InitStepsLooksUpFirst(f, dir, env, os, known, w) ==
    LET wdir  == InitAnchor(f, dir)
        r2    == ApplicationDataDir(f, dir, env, os, known)
        wpath == Join(r2.path, w)
        r1    == CreateDirAll(r2.fs, dir, wdir)
        r3    == CopyTreeEnter(r1.fs, dir, wpath, Join(wdir, w))
    IN  IF ~r2.ok THEN EnterErr(r2.fs, r2.err)
        ELSE IF ~(Exists(r2.fs, dir, wpath) /\ IsDir(r2.fs, dir, wpath))
             THEN EnterErr(r2.fs, "WorkshopDataDirNotFound")
        ELSE IF ~r1.ok THEN EnterErr(r1.fs, r1.err)
        ELSE r3

\* init_data_dir making the target directory before it looks for the source
InitStepsCreatesTargetFirst(f, dir, env, os, known, w) ==
    LET wdir  == InitAnchor(f, dir)
        r1    == CreateDirAll(f, dir, wdir)
        r2    == ApplicationDataDir(r1.fs, dir, env, os, known)
        wpath == Join(r2.path, w)
        made  == CreateDirAll(r2.fs, dir, Join(wdir, w))
        r3    == CopyTreeEnter(made.fs, dir, wpath, Join(wdir, w))
    IN  IF ~r1.ok THEN EnterErr(r1.fs, r1.err)
        ELSE IF ~r2.ok THEN EnterErr(r2.fs, r2.err)
        ELSE IF ~made.ok THEN EnterErr(made.fs, made.err)
        ELSE IF ~(Exists(made.fs, dir, wpath) /\ IsDir(made.fs, dir, wpath))
             THEN EnterErr(made.fs, "WorkshopDataDirNotFound")
        ELSE r3

\* init_data_dir up to the for loop of its copy_tree call
InitSteps(f, dir, env, os, known, w) ==
    LET wdir  == InitAnchor(f, dir)
        r1    == CreateDirAll(f, dir, wdir)
        r2    == ApplicationDataDir(r1.fs, dir, env, os, known)
        wpath == Join(r2.path, w)
        r3    == CopyTreeEnter(r2.fs, dir, wpath, Join(wdir, w))
    IN  IF ~r1.ok THEN EnterErr(r1.fs, r1.err)
        ELSE IF ~r2.ok THEN EnterErr(r2.fs, r2.err)
        ELSE IF ~(Exists(r2.fs, dir, wpath) /\ IsDir(r2.fs, dir, wpath))
             THEN EnterErr(r2.fs, "WorkshopDataDirNotFound")
        ELSE r3

\* init_data_dir(w) is called
InitDataDirCall ==
    /\ ~call.active /\ calls < MaxCalls
    /\ \E w \in WorkshopArgs :
          LET r == InitSteps(fs, cwd, envDir, platform, homeKnown, w)
          IN  /\ fs' = r.fs
              /\ before' = fs
              /\ calls' = calls + 1
              /\ seenNow' = {}
              /\ IF r.ok
                 THEN /\ stack' = <<r.frame>>
                      /\ call' = Busy(w, InitAnchor(fs, cwd))
                      /\ ret' = NoRet
                 ELSE /\ stack' = <<>>
                      /\ call' = Idle
                      /\ ret' = RetErr("init", w, r.err)
    /\ UNCHANGED <<cwd, envDir, homeKnown, sets, status, seenAll, configDisk>>
    /\ UNCHANGED <<probeVars, langVars>>

Top == stack[Len(stack)]

\* the entries the for loop of the innermost copy_tree may take next: those
\* listed and not yet taken, and any added to the directory since
Pendings == (Top.listed \cup Children(fs, Resolve(cwd, Top.src))) \ Top.seen

Taken(n) == [stack EXCEPT ![Len(stack)].seen = @ \cup {n}]

\* an error that undoes the copies made so far before it is returned
PropagateRollsBack(f, e) ==
    /\ fs' = before
    /\ stack' = <<>>
    /\ ret' = RetErr("init", call.workshop, e)
    /\ call' = Idle

\* the ? operator: the error leaves every copy_tree and init_data_dir
Propagate(f, e) ==
    /\ fs' = f
    /\ stack' = <<>>
    /\ ret' = RetErr("init", call.workshop, e)
    /\ call' = Idle

\* the for loop takes an entry that is not a directory: std::fs::copy
CopyFile ==
    /\ call.active /\ stack # <<>>
    /\ \E n \in Pendings :
          /\ ~IsDir(fs, cwd, Join(Top.src, n))
          /\ \E r \in CopyOutcomes(fs, cwd, Join(Top.src, n), Join(Top.tgt, n)) :
                IF r.ok
                THEN /\ fs' = r.fs
                     /\ stack' = Taken(n)
                     /\ UNCHANGED <<ret, call>>
                ELSE Propagate(r.fs, r.err)
    /\ UNCHANGED <<cwd, envDir, homeKnown, sets, calls, status, seenAll, seenNow, before,
                   configDisk>>
    /\ UNCHANGED <<probeVars, langVars>>

\* the for loop takes an entry that is a directory: the recursive call
CopySubdir ==
    /\ call.active /\ stack # <<>>
    /\ \E n \in Pendings :
          /\ IsDir(fs, cwd, Join(Top.src, n))
          /\ LET r == CopyTreeEnter(fs, cwd, Join(Top.src, n), Join(Top.tgt, n))
             IN  IF r.ok
                 THEN /\ fs' = r.fs
                      /\ stack' = Append(Taken(n), r.frame)
                      /\ UNCHANGED <<ret, call>>
                 ELSE Propagate(r.fs, r.err)
    /\ UNCHANGED <<cwd, envDir, homeKnown, sets, calls, status, seenAll, seenNow, before,
                   configDisk>>
    /\ UNCHANGED <<probeVars, langVars>>

\* the for loop of the innermost copy_tree ends: Ok(()); the outermost one
\* makes init_data_dir return Ok(workshops_dir)
CopyTreeReturn ==
    /\ call.active /\ stack # <<>>
    /\ Top.listed \subseteq Top.seen
    /\ stack' = SubSeq(stack, 1, Len(stack) - 1)
    /\ IF Len(stack) = 1
       THEN /\ ret' = RetPath("init", call.workshop, call.workshops_dir)
            /\ call' = Idle
            /\ seenNow' = {call.workshops_dir}
            /\ seenAll' = seenAll \cup {call.workshops_dir}
       ELSE UNCHANGED <<ret, call, seenNow, seenAll>>
    /\ UNCHANGED <<fs, cwd, envDir, homeKnown, sets, calls, status, before, configDisk>>
    /\ UNCHANGED <<probeVars, langVars>>

\* the store a resolution yielded, if any
Seen(r) == IF r.some THEN {r.path} ELSE {}

\* application::data_dir() is called
ApplicationDataDirCall ==
    /\ ~call.active /\ calls < MaxCalls
    /\ LET r == ApplicationDataDir(fs, cwd, envDir, platform, homeKnown)
       IN  /\ fs' = r.fs
           /\ ret' = IF r.ok THEN RetPath("application_data_dir", "", r.path)
                     ELSE RetErr("application_data_dir", "", r.err)
    /\ before' = fs
    /\ seenNow' = {}
    /\ calls' = calls + 1
    /\ UNCHANGED <<cwd, envDir, homeKnown, sets, stack, call, status, seenAll, configDisk>>
    /\ UNCHANGED <<probeVars, langVars>>

\* a search that makes the store of the working directory when it finds none
WorkshopsDataDirCallCreatesStore ==
    /\ ~call.active /\ calls < MaxCalls
    /\ LET r == WorkshopsDataDir(fs, cwd)
       IN  ret' = IF r.some THEN RetPath("workshops_data_dir", "", r.path)
                  ELSE RetNone("workshops_data_dir", "")
    /\ seenNow' = seenNow \cup Seen(WorkshopsDataDir(fs, cwd))
    /\ seenAll' = seenAll \cup Seen(WorkshopsDataDir(fs, cwd))
    /\ before' = fs
    /\ calls' = calls + 1
    /\ fs' = IF WorkshopsDataDir(fs, cwd).some THEN fs
             ELSE CreateDirAll(fs, cwd, Join(AbsPath(cwd), ".workshops")).fs
    /\ UNCHANGED <<cwd, envDir, homeKnown, sets, stack, call, status, configDisk>>
    /\ UNCHANGED <<probeVars, langVars>>

\* workshops::data_dir() is called
WorkshopsDataDirCall ==
    /\ ~call.active /\ calls < MaxCalls
    /\ LET r == WorkshopsDataDir(fs, cwd)
       IN  ret' = IF r.some THEN RetPath("workshops_data_dir", "", r.path)
                  ELSE RetNone("workshops_data_dir", "")
    /\ seenNow' = seenNow \cup Seen(WorkshopsDataDir(fs, cwd))
    /\ seenAll' = seenAll \cup Seen(WorkshopsDataDir(fs, cwd))
    /\ before' = fs
    /\ calls' = calls + 1
    /\ UNCHANGED <<fs, cwd, envDir, homeKnown, sets, stack, call, status, configDisk>>
    /\ UNCHANGED <<probeVars, langVars>>

\* ---- application::all_workshops and workshops::load_workshop_data -------

\* a directory name that is not valid Unicode (w1 followed by the byte FF),
\* and the name to_string_lossy makes of it (w1 followed by U+FFFD)
RawName == "w1<FF>"

LossyName == "w1<U+FFFD>"

\* entry.file_name().to_string_lossy().to_string()
ToStringLossy(name) == IF name = RawName THEN LossyName ELSE name

\* the workshop data loaded from directory name of store base
WorkshopData(base, name) == [path |-> base, name |-> name]

\* workshop::Loader::new(name).path(base).try_load(): it reads the directory
\* base/name, and fails on the directories of rejected
LoaderAccepts(f, dir, base, name, rejected) ==
    /\ IsDir(f, dir, Join(base, name))
    /\ Resolve(dir, Join(base, name)) \notin rejected

\* the immediate subdirectories of base
Subdirs(f, dir, base) ==
    {n \in Children(f, Resolve(dir, base)) : f[Append(Resolve(dir, base), n)].kind = "dir"}

MapOk(m) == [ok |-> TRUE, map |-> m, err |-> ""]

MapErr(e) == [ok |-> FALSE, map |-> NoMap, err |-> e]

\* HashMap::extend: the entries of b replace those of a with the same key
Extend(a, b) == [k \in DOMAIN a \cup DOMAIN b |-> IF k \in DOMAIN b THEN b[k] ELSE a[k]]

\* workshops::load_workshop_data(base)
LoadWorkshopData(f, dir, base, rejected) ==
    IF ~Exists(f, dir, base) \/ ~IsDir(f, dir, base)
    THEN MapErr("WorkshopDataDirNotFound")
    ELSE IF \E n \in Subdirs(f, dir, base) :
               ~LoaderAccepts(f, dir, base, ToStringLossy(n), rejected)
    THEN MapErr("Loader")
    ELSE MapOk([k \in {ToStringLossy(n) : n \in Subdirs(f, dir, base)} |->
                   WorkshopData(base, k)])

\* all_workshops merging the application data store over the local one
AllWorkshopsStoreWins(f, dir, data, rejected) ==
    LET app   == LoadWorkshopData(f, dir, data, rejected)
        local == WorkshopsDataDir(f, dir)
        loc   == LoadWorkshopData(f, dir, local.path, rejected)
    IN  IF ~app.ok THEN app
        ELSE IF ~local.some THEN app
        ELSE IF ~loc.ok THEN loc
        ELSE MapOk(Extend(loc.map, app.map))

\* all_workshops, once application::data_dir returned data
AllWorkshops(f, dir, data, rejected) ==
    LET app   == LoadWorkshopData(f, dir, data, rejected)
        local == WorkshopsDataDir(f, dir)
        loc   == LoadWorkshopData(f, dir, local.path, rejected)
    IN  IF ~app.ok THEN app
        ELSE IF ~local.some THEN app
        ELSE IF ~loc.ok THEN loc
        ELSE MapOk(Extend(app.map, loc.map))

\* the directories of store base the loader is given
Loadable(f, dir, base) ==
    IF IsDir(f, dir, base)
    THEN {Append(Resolve(dir, base), ToStringLossy(n)) : n \in Subdirs(f, dir, base)}
    ELSE {}

\* application::all_workshops() is called
AllWorkshopsCall ==
    /\ ~call.active /\ calls < MaxCalls
    /\ LET r == ApplicationDataDir(fs, cwd, envDir, platform, homeKnown)
       IN  /\ fs' = r.fs
           /\ IF ~r.ok
              THEN /\ ret' = RetErr("all_workshops", "", r.err)
                   /\ seenNow' = {}
                   /\ seenAll' = seenAll
              ELSE \E bad \in {{}} \cup
                            {{q} : q \in Loadable(r.fs, cwd, r.path) \cup
                                        Loadable(r.fs, cwd, WorkshopsDataDir(r.fs, cwd).path)} :
                      LET m   == AllWorkshops(r.fs, cwd, r.path, bad)
                          app == LoadWorkshopData(r.fs, cwd, r.path, bad)
                      IN  /\ ret' = IF m.ok THEN RetMap("all_workshops", m.map)
                                    ELSE RetErr("all_workshops", "", m.err)
                          /\ seenNow' = IF app.ok THEN Seen(WorkshopsDataDir(r.fs, cwd))
                                        ELSE {}
                          /\ seenAll' = seenAll \cup seenNow'
    /\ before' = fs
    /\ calls' = calls + 1
    /\ UNCHANGED <<cwd, envDir, homeKnown, sets, stack, call, status, configDisk>>
    /\ UNCHANGED <<probeVars, langVars>>


\* ---- Status (status.rs) --------------------------------------------------

\* the defaults a Config holds (crate::Config, read through its getters)
Config(py, dc, git, spoken, prog) ==
    [python_executable |-> py, docker_compose_executable |-> dc, git_executable |-> git,
     spoken_language |-> spoken, programming_language |-> prog]

EmptyConfig == Config(Null, Null, Null, Null, Null)

NoStatus ==
    [loaded |-> FALSE,
     python_executable |-> Null, docker_compose_executable |-> Null,
     git_executable |-> Null, spoken_language |-> Null,
     programming_language |-> Null, workshop |-> Null, lesson |-> Null,
     config |-> EmptyConfig]

\* the strings YAML reads as something other than themselves when written
\* plain
ReservedScalars == {"null", "~", "", "true", "false"}

\* a string written as a single-quoted YAML scalar
Quoted(v) ==
    CASE v = "null" -> "'null'"
      [] v = "~" -> "'~'"
      [] v = "" -> "''"
      [] v = "true" -> "'true'"
      [] v = "false" -> "'false'"

\* an Option<String> written without ever quoting it
ToYamlScalarNeverQuotes(v) == IF v = Null THEN "null" ELSE v

\* serde_yaml writing an Option field: None is null, a string that would
\* read as another value is quoted
ToYamlScalar(v) ==
    IF v = Null THEN "null"
    ELSE IF v \in ReservedScalars THEN Quoted(v)
    ELSE v

\* serde_yaml reading an Option field
FromYamlScalar(t) ==
    IF t \in {"null", "~", ""} THEN Null
    ELSE IF \E v \in ReservedScalars : Quoted(v) = t
         THEN CHOOSE v \in ReservedScalars : Quoted(v) = t
    ELSE t

\* serde_yaml::to_writer(&self): the seven serialized fields; config is
\* #[serde(skip)]
ToYaml(st) ==
    <<ToYamlScalar(st.python_executable), ToYamlScalar(st.docker_compose_executable),
      ToYamlScalar(st.git_executable), ToYamlScalar(st.spoken_language),
      ToYamlScalar(st.programming_language), ToYamlScalar(st.workshop),
      ToYamlScalar(st.lesson)>>

IsStatusYaml(data) == Len(data) = 7

\* serde_yaml::from_reader, then status.config = config
FromYaml(data, config) ==
    [loaded |-> TRUE,
     python_executable |-> FromYamlScalar(data[1]),
     docker_compose_executable |-> FromYamlScalar(data[2]),
     git_executable |-> FromYamlScalar(data[3]),
     spoken_language |-> FromYamlScalar(data[4]),
     programming_language |-> FromYamlScalar(data[5]),
     workshop |-> FromYamlScalar(data[6]),
     lesson |-> FromYamlScalar(data[7]),
     config |-> config]

\* the Status created from the Config when there is no status.yaml
FromConfig(config) ==
    [loaded |-> TRUE,
     python_executable |-> config.python_executable,
     docker_compose_executable |-> config.docker_compose_executable,
     git_executable |-> config.git_executable,
     spoken_language |-> config.spoken_language,
     programming_language |-> config.programming_language,
     workshop |-> Null, lesson |-> Null,
     config |-> config]

\* a status file always placed in <cwd>/.workshops, whether that directory
\* exists or not
StatusPathInCwd(f, dir) == SomePath(Join(Join(AbsPath(dir), ".workshops"), "status.yaml"))

\* the file Status::load and Status::save use
StatusPath(f, dir) ==
    IF WorkshopsDataDir(f, dir).some
    THEN SomePath(Join(WorkshopsDataDir(f, dir).path, "status.yaml"))
    ELSE NoPath

\* Status::load; Config::load may fail
StatusLoad ==
    /\ ~call.active /\ calls < MaxCalls
    /\ \E configOk \in BOOLEAN :
          LET path == StatusPath(fs, cwd)
          IN  IF ~configOk
              THEN /\ status' = status
                   /\ ret' = RetErr("load", "", "Config")
                   /\ UNCHANGED <<seenNow, seenAll>>
              ELSE /\ IF path.some /\ Exists(fs, cwd, path.path)
                      THEN IF IsFile(fs, cwd, path.path)
                              /\ IsStatusYaml(fs[Resolve(cwd, path.path)].data)
                           THEN /\ status' = FromYaml(fs[Resolve(cwd, path.path)].data,
                                                      configDisk)
                                /\ ret' = RetPath("load", "", path.path)
                           ELSE /\ status' = status
                                /\ ret' = RetErr("load", "", "Yaml")
                      ELSE /\ status' = FromConfig(configDisk)
                           /\ ret' = RetNone("load", "")
                   /\ seenNow' = seenNow \cup Seen(WorkshopsDataDir(fs, cwd))
                   /\ seenAll' = seenAll \cup Seen(WorkshopsDataDir(fs, cwd))
    /\ before' = fs
    /\ calls' = calls + 1
    /\ UNCHANGED <<fs, cwd, envDir, homeKnown, sets, stack, call, configDisk>>
    /\ UNCHANGED <<probeVars, langVars>>

\* Status::save; Config::save may fail
StatusSave ==
    /\ ~call.active /\ calls < MaxCalls
    /\ status.loaded
    /\ \E configOk \in BOOLEAN :
          LET path == StatusPath(fs, cwd)
              made == CreateDirAll(fs, cwd, AbsPath(Parent(Resolve(cwd, path.path))))
              file == IF path.some
                      THEN Put(made.fs, Resolve(cwd, path.path), File(ToYaml(status)))
                      ELSE fs
          IN  IF path.some /\ ~made.ok
              THEN /\ fs' = made.fs
                   /\ configDisk' = configDisk
                   /\ ret' = RetErr("save", "", made.err)
              ELSE IF path.some /\ IsDir(made.fs, cwd, path.path)
              THEN /\ fs' = made.fs
                   /\ configDisk' = configDisk
                   /\ ret' = RetErr("save", "", "Io:IsADirectory")
              ELSE IF ~configOk
              THEN /\ fs' = file
                   /\ configDisk' = configDisk
                   /\ ret' = RetErr("save", "", "Config")
              ELSE /\ fs' = file
                   /\ configDisk' = status.config
                   /\ ret' = IF path.some THEN RetPath("save", "", path.path)
                             ELSE RetNone("save", "")
    /\ seenNow' = seenNow \cup Seen(WorkshopsDataDir(fs, cwd))
    /\ seenAll' = seenAll \cup Seen(WorkshopsDataDir(fs, cwd))
    /\ before' = fs
    /\ calls' = calls + 1
    /\ UNCHANGED <<cwd, envDir, homeKnown, sets, stack, call, status>>
    /\ UNCHANGED <<probeVars, langVars>>

\* how many setter calls a session makes
MaxSets == 1

\* Status::set_python_executable(python_executable, default)
SetPythonExecutable ==
    /\ ~call.active /\ status.loaded /\ sets < MaxSets
    /\ \E v \in {"py", "python3.12"}, default \in BOOLEAN :
          /\ status' = [status EXCEPT !.python_executable = v,
                                      !.config.python_executable = IF default THEN v ELSE @]
          /\ ret' = RetSet("set_python_executable", v, default)
    /\ sets' = sets + 1
    /\ before' = fs
    /\ UNCHANGED <<fs, cwd, envDir, homeKnown, stack, call, calls, seenAll, seenNow,
                   configDisk>>
    /\ UNCHANGED <<probeVars, langVars>>

\* Status::set_docker_compose_executable(docker_compose_executable, default)
SetDockerComposeExecutable ==
    /\ ~call.active /\ status.loaded /\ sets < MaxSets
    /\ \E v \in {"docker"}, default \in BOOLEAN :
          /\ status' = [status EXCEPT !.docker_compose_executable = v,
                                      !.config.docker_compose_executable = IF default THEN v ELSE @]
          /\ ret' = RetSet("set_docker_compose_executable", v, default)
    /\ sets' = sets + 1
    /\ before' = fs
    /\ UNCHANGED <<fs, cwd, envDir, homeKnown, stack, call, calls, seenAll, seenNow,
                   configDisk>>
    /\ UNCHANGED <<probeVars, langVars>>

\* Status::set_git_executable(git_executable, default)
SetGitExecutable ==
    /\ ~call.active /\ status.loaded /\ sets < MaxSets
    /\ \E v \in {"true"}, default \in BOOLEAN :
          /\ status' = [status EXCEPT !.git_executable = v,
                                      !.config.git_executable = IF default THEN v ELSE @]
          /\ ret' = RetSet("set_git_executable", v, default)
    /\ sets' = sets + 1
    /\ before' = fs
    /\ UNCHANGED <<fs, cwd, envDir, homeKnown, stack, call, calls, seenAll, seenNow,
                   configDisk>>
    /\ UNCHANGED <<probeVars, langVars>>

\* a set_spoken_language that makes the value the Config default whatever
\* the flag says
SetSpokenLanguageAlwaysDefault ==
    /\ ~call.active /\ status.loaded /\ sets < MaxSets
    /\ \E v \in {Null, "fr"}, default \in BOOLEAN :
          /\ status' = [status EXCEPT !.spoken_language = v,
                                      !.config.spoken_language = v]
          /\ ret' = RetSet("set_spoken_language", v, default)
    /\ sets' = sets + 1
    /\ before' = fs
    /\ UNCHANGED <<fs, cwd, envDir, homeKnown, stack, call, calls, seenAll, seenNow,
                   configDisk>>
    /\ UNCHANGED <<probeVars, langVars>>

\* Status::set_spoken_language(spoken_language, default)
SetSpokenLanguage ==
    /\ ~call.active /\ status.loaded /\ sets < MaxSets
    /\ \E v \in {Null, "fr"}, default \in BOOLEAN :
          /\ status' = [status EXCEPT !.spoken_language = v,
                                      !.config.spoken_language = IF default THEN v ELSE @]
          /\ ret' = RetSet("set_spoken_language", v, default)
    /\ sets' = sets + 1
    /\ before' = fs
    /\ UNCHANGED <<fs, cwd, envDir, homeKnown, stack, call, calls, seenAll, seenNow,
                   configDisk>>
    /\ UNCHANGED <<probeVars, langVars>>

\* Status::set_programming_language(programming_language, default)
SetProgrammingLanguage ==
    /\ ~call.active /\ status.loaded /\ sets < MaxSets
    /\ \E v \in {Null, "go"}, default \in BOOLEAN :
          /\ status' = [status EXCEPT !.programming_language = v,
                                      !.config.programming_language = IF default THEN v ELSE @]
          /\ ret' = RetSet("set_programming_language", v, default)
    /\ sets' = sets + 1
    /\ before' = fs
    /\ UNCHANGED <<fs, cwd, envDir, homeKnown, stack, call, calls, seenAll, seenNow,
                   configDisk>>
    /\ UNCHANGED <<probeVars, langVars>>

\* Status::set_workshop(workshop)
SetWorkshop ==
    /\ ~call.active /\ status.loaded /\ sets < MaxSets
    /\ \E v \in {Null, "w2", "null"} :
          /\ status' = [status EXCEPT !.workshop = v]
          /\ ret' = RetSet("set_workshop", v, FALSE)
    /\ sets' = sets + 1
    /\ before' = fs
    /\ UNCHANGED <<fs, cwd, envDir, homeKnown, stack, call, calls, seenAll, seenNow,
                   configDisk>>
    /\ UNCHANGED <<probeVars, langVars>>

\* Status::set_lesson(lesson)
SetLesson ==
    /\ ~call.active /\ status.loaded /\ sets < MaxSets
    /\ \E v \in {Null, "", "lesson-9"} :
          /\ status' = [status EXCEPT !.lesson = v]
          /\ ret' = RetSet("set_lesson", v, FALSE)
    /\ sets' = sets + 1
    /\ before' = fs
    /\ UNCHANGED <<fs, cwd, envDir, homeKnown, stack, call, calls, seenAll, seenNow,
                   configDisk>>
    /\ UNCHANGED <<probeVars, langVars>>


\* ---- the language aggregations of application (utils.rs 376-416) -------

\* how many workshops the map all_workshops returned holds at most
MaxWorkshops == 2

\* spoken::Code and programming::Code values, in the order of their Ord
SpokenCodes == <<"de", "en", "fr">>

ProgrammingCodes == <<"go", "py", "rs">>

CodeOrder == SpokenCodes \o ProgrammingCodes

CodeOrd(c) == CHOOSE i \in 1..Len(CodeOrder) : CodeOrder[i] = c

Range(q) == {q[i] : i \in 1..Len(q)}

\* the sorted sequence q with x put after the elements not greater than x
InsertSorted(q, x) ==
    LET k == Cardinality({i \in 1..Len(q) : CodeOrd(q[i]) <= CodeOrd(x)})
    IN  SubSeq(q, 1, k) \o <<x>> \o SubSeq(q, k + 1, Len(q))

RECURSIVE SortCodes(_)
\* Vec::sort, which is stable
SortCodes(q) ==
    IF q = <<>> THEN <<>>
    ELSE InsertSorted(SortCodes(SubSeq(q, 1, Len(q) - 1)), q[Len(q)])

\* a dedup that removes nothing
DedupKeepsAll(q) == q

RECURSIVE Dedup(_)
\* Vec::dedup: of consecutive equal elements all but the first are removed
Dedup(q) ==
    IF Len(q) <= 1 THEN q
    ELSE IF q[Len(q)] = q[Len(q) - 1] THEN Dedup(SubSeq(q, 1, Len(q) - 1))
    ELSE Append(Dedup(SubSeq(q, 1, Len(q) - 1)), q[Len(q)])

\* the orders in which the keys of a HashMap can be iterated
Enumerations(S) ==
    {q \in [1..Cardinality(S) -> S] : \A x \in S : \E i \in 1..Cardinality(S) : q[i] = x}

RECURSIVE FlatValues(_, _)
\* the values of table t concatenated, its keys taken in the order keys
FlatValues(t, keys) ==
    IF keys = <<>> THEN <<>>
    ELSE t[keys[1]] \o FlatValues(t, SubSeq(keys, 2, Len(keys)))

\* the language tables workshops are loaded with: for each spoken language
\* supported, the programming languages as the workshop lists them
Table1 == [sp \in {"en"} |-> <<"rs", "py">>]

Table2 == [sp \in {"en", "fr"} |-> IF sp = "en" THEN <<"py">> ELSE <<"py", "py">>]

Table3 == [sp \in {"en", "de"} |-> IF sp = "en" THEN <<"go">> ELSE <<"rs", "go">>]

Table4 == [sp \in {"de"} |-> <<"py", "rs">>]

Table5 == [sp \in {} |-> <<>>]

LangTables == {Table1, Table2, Table3, Table4, Table5}

WorkshopNames == <<"A", "B", "C", "D">>

\* the maps all_workshops can have returned
MergedMaps ==
    UNION {[S -> LangTables] :
              S \in SUBSET {WorkshopNames[i] : i \in 1..MaxWorkshops}}

NoLanguages == [sp \in {} |-> <<>>]

\* the inner loop of get_all_languages over one workshop's table t: a
\* spoken language already in langs has its list extended, sorted and
\* deduplicated, a new one gets the workshop's list as it is
MergeWorkshop(langs, t) ==
    [sp \in DOMAIN langs \cup DOMAIN t |->
        IF sp \notin DOMAIN t THEN langs[sp]
        ELSE IF sp \in DOMAIN langs THEN Dedup(SortCodes(langs[sp] \o t[sp]))
        ELSE t[sp]]

\* all_spoken_languages is called: all_workshops()?.values()
AllSpokenLanguagesBegin ==
    /\ phase = "idle"
    /\ fn' = "all_spoken_languages"
    /\ phase' = "loop"
    /\ todo' = DOMAIN merged
    /\ collected' = <<>>
    /\ languages' = NoLanguages
    /\ UNCHANGED merged
    /\ UNCHANGED <<probeVars, fsVars>>

\* all_programming_languages is called: all_workshops()?.values()
AllProgrammingLanguagesBegin ==
    /\ phase = "idle"
    /\ fn' = "all_programming_languages"
    /\ phase' = "loop"
    /\ todo' = DOMAIN merged
    /\ collected' = <<>>
    /\ languages' = NoLanguages
    /\ UNCHANGED merged
    /\ UNCHANGED <<probeVars, fsVars>>

\* get_all_languages is called: HashMap::new(), all_workshops()?.values()
GetAllLanguagesBegin ==
    /\ phase = "idle"
    /\ fn' = "get_all_languages"
    /\ phase' = "loop"
    /\ todo' = DOMAIN merged
    /\ collected' = <<>>
    /\ languages' = NoLanguages
    /\ UNCHANGED merged
    /\ UNCHANGED <<probeVars, fsVars>>

\* flat_map(|workshop| workshop.get_all_spoken_languages()) reaches a workshop
AllSpokenLanguagesVisit ==
    /\ fn = "all_spoken_languages" /\ phase = "loop"
    /\ \E w \in todo :
          /\ todo' = todo \ {w}
          /\ \E keys \in Enumerations(DOMAIN merged[w]) : collected' = collected \o keys
    /\ UNCHANGED <<merged, fn, phase, languages>>
    /\ UNCHANGED <<probeVars, fsVars>>

\* flat_map(|workshop| workshop.get_all_programming_languages()) reaches a
\* workshop
AllProgrammingLanguagesVisit ==
    /\ fn = "all_programming_languages" /\ phase = "loop"
    /\ \E w \in todo :
          /\ todo' = todo \ {w}
          /\ \E keys \in Enumerations(DOMAIN merged[w]) :
                collected' = collected \o FlatValues(merged[w], keys)
    /\ UNCHANGED <<merged, fn, phase, languages>>
    /\ UNCHANGED <<probeVars, fsVars>>

\* sort, dedup, Ok(..)
CollectedReturn ==
    /\ fn \in {"all_spoken_languages", "all_programming_languages"} /\ phase = "loop"
    /\ todo = {}
    /\ collected' = Dedup(SortCodes(collected))
    /\ phase' = "returned"
    /\ UNCHANGED <<merged, fn, todo, languages>>
    /\ UNCHANGED <<probeVars, fsVars>>

\* the for loop of get_all_languages reaches a workshop
GetAllLanguagesVisit ==
    /\ fn = "get_all_languages" /\ phase = "loop"
    /\ \E w \in todo :
          /\ todo' = todo \ {w}
          /\ languages' = MergeWorkshop(languages, merged[w])
    /\ UNCHANGED <<merged, fn, phase, collected>>
    /\ UNCHANGED <<probeVars, fsVars>>

\* Ok(languages)
GetAllLanguagesReturn ==
    /\ fn = "get_all_languages" /\ phase = "loop"
    /\ todo = {}
    /\ phase' = "returned"
    /\ UNCHANGED <<merged, fn, todo, collected, languages>>
    /\ UNCHANGED <<probeVars, fsVars>>


\* ---- the sessions explored ------------------------------------------------

RootOnly == (<<>> :> Dir)

\* every entry but the root lies in a directory
WellFormed(f) ==
    /\ <<>> \in DOMAIN f /\ f[<<>>].kind = "dir"
    /\ \A q \in DOMAIN f : q # <<>> => (Parent(q) \in DOMAIN f /\ f[Parent(q)].kind = "dir")

WorkDir == <<"x", "y">>

\* /x/y/a.txt, and the working directory above it
BaseFs == Put(WithDirs(RootOnly, WorkDir), Append(WorkDir, "a.txt"), File(<<"C">>))

\* a .workshops entry in directory d: none, a regular file, or a directory
Marked(f, d, kind) ==
    CASE kind = "file" -> Put(f, Append(d, ".workshops"), File(<<"F">>))
      [] kind = "dir" -> Put(f, Append(d, ".workshops"), Dir)
      [] OTHER -> f

SavedStatus == <<"python3", "null", "git", "en", "rust", "w1", "lesson-1">>

\* what the local workspace store of the working directory already holds
LocalKinds == {"none", "stale", "clash", "status"}

WithLocal(f, kind) ==
    LET w == WorkDir \o <<".workshops", "w1">>
    IN  CASE kind = "stale" -> Put(WithDirs(f, w), Append(w, "a.txt"), File(<<"old">>))
          [] kind = "clash" -> WithDirs(f, Append(w, "a.txt"))
          [] kind = "status" ->
                Put(f, WorkDir \o <<".workshops", "status.yaml">>, File(SavedStatus))
          [] OTHER -> f

\* what the application data store at s holds: nothing (the directory is
\* missing), no workshop, a regular file named w1, the workshop w1 with
\* a.txt and data/b.txt, or two workshops of which one has a name that is
\* not Unicode
StoreKinds == {"none", "empty", "file", "tree", "raw"}

WithStore(f, s, kind) ==
    CASE kind = "empty" -> WithDirs(f, s)
      [] kind = "file" -> Put(WithDirs(f, s), Append(s, "w1"), File(<<"W">>))
      [] kind = "tree" ->
            Put(Put(WithDirs(f, s \o <<"w1", "data">>),
                    s \o <<"w1", "a.txt">>, File(<<"A">>)),
                s \o <<"w1", "data", "b.txt">>, File(<<"B">>))
      [] kind = "raw" -> WithDirs(WithDirs(f, Append(s, RawName)), Append(s, LossyName))
      [] OTHER -> f

\* the values of WORKSHOPS_DIR: unset, empty, not Unicode, a directory of
\* its own, the local workspace store, a directory inside it, and an
\* ancestor of the working directory
EnvChoices ==
    {EnvUnset,
     EnvSet(EmptyPath),
     EnvNotUnicode(AbsPath(<<"store">>)),
     EnvSet(AbsPath(<<"store">>)),
     EnvSet(AbsPath(WorkDir \o <<".workshops">>)),
     EnvSet(AbsPath(WorkDir \o <<".workshops", "w1">>)),
     EnvSet(AbsPath(<<"x">>))}

UsesProjectDirs(env) == ~(env.set /\ env.unicode)

\* where the workshops of the application data store are looked for
StoreAt(env, os, known) ==
    IF UsesProjectDirs(env)
    THEN ProjectDataDir(os, known, APPLICATION_PARTS)
    ELSE SomePath(AbsPath(Resolve(WorkDir, env.value)))

Scenario(kRoot, kX, kY, local, env, os, known, store) ==
    LET marked == WithLocal(Marked(Marked(Marked(BaseFs, <<>>, kRoot), <<"x">>, kX),
                                   WorkDir, kY), local)
        at     == StoreAt(env, os, known)
    IN  IF at.some THEN WithStore(marked, at.path.segs, store) ELSE marked

\* no language aggregation runs in the sessions of Spec and SpecFs
LangIdle ==
    /\ merged = NoLanguages
    /\ fn = "none"
    /\ phase = "never"
    /\ todo = {}
    /\ collected = <<>>
    /\ languages = NoLanguages

\* no toolchain discovery runs in the sessions of SpecFs
ProbeIdle ==
    /\ entry = "none"
    /\ minText = <<>>
    /\ pc = "idle"
    /\ strategy = ""
    /\ idx = 0
    /\ probes = <<>>
    /\ result = NoResult

InitFs ==
    /\ cwd = WorkDir
    /\ envDir \in EnvChoices
    /\ platform \in IF UsesProjectDirs(envDir) THEN {"linux", "macos", "windows"} ELSE {"linux"}
    /\ homeKnown \in IF UsesProjectDirs(envDir) THEN BOOLEAN ELSE {TRUE}
    /\ \E kRoot \in {"absent", "dir"}, kX, kY \in {"absent", "file", "dir"},
          local \in LocalKinds, store \in StoreKinds :
          /\ local # "none" => (kY = "dir" /\ envDir \in {EnvUnset, EnvSet(AbsPath(<<"store">>))})
          /\ fs = Scenario(kRoot, kX, kY, local, envDir, platform, homeKnown, store)
    /\ WellFormed(fs)
    /\ stack = <<>>
    /\ call = Idle
    /\ ret = NoRet
    /\ calls = 0
    /\ sets = 0
    /\ status = NoStatus
    /\ seenAll = {}
    /\ seenNow = {}
    /\ before = fs
    /\ configDisk = Config("python3", Null, "git", "en", Null)
    /\ ProbeIdle
    /\ LangIdle


\* no filesystem call runs in the sessions of Spec
FsIdle ==
    /\ fs = RootOnly
    /\ cwd = <<>>
    /\ envDir = EnvUnset
    /\ homeKnown = TRUE
    /\ stack = <<>>
    /\ call = Idle
    /\ ret = NoRet
    /\ calls = 0
    /\ sets = 0
    /\ status = NoStatus
    /\ seenAll = {}
    /\ seenNow = {}
    /\ before = RootOnly
    /\ configDisk = EmptyConfig

InitProbe ==
    /\ platform \in Platforms
    /\ entry \in {"python", "compose"}
    /\ minText \in MinTexts
    /\ pc = "start"
    /\ strategy = ""
    /\ idx = 0
    /\ probes = <<>>
    /\ result = NoResult
    /\ FsIdle
    /\ LangIdle

NextProbe ==
    \/ FindPythonBadMin
    \/ FindPythonBegin
    \/ PythonProbeDone
    \/ LauncherProbeDone
    \/ FindComposeBadMin
    \/ FindComposeBegin
    \/ PluginProbeDone
    \/ StandaloneProbeDone
    \/ ChildHangs

NextFs ==
    \/ InitDataDirCall
    \/ CopyFile
    \/ CopySubdir
    \/ CopyTreeReturn
    \/ ApplicationDataDirCall
    \/ WorkshopsDataDirCall
    \/ AllWorkshopsCall
    \/ StatusLoad
    \/ StatusSave

\* the map all_workshops returned is any of MergedMaps
InitLang ==
    /\ merged \in MergedMaps
    /\ fn = "none"
    /\ phase = "idle"
    /\ todo = {}
    /\ collected = <<>>
    /\ languages = NoLanguages
    /\ platform = "linux"
    /\ ProbeIdle
    /\ FsIdle

NextLang ==
    \/ AllSpokenLanguagesBegin
    \/ AllSpokenLanguagesVisit
    \/ AllProgrammingLanguagesBegin
    \/ AllProgrammingLanguagesVisit
    \/ CollectedReturn
    \/ GetAllLanguagesBegin
    \/ GetAllLanguagesVisit
    \/ GetAllLanguagesReturn

\* a session that only uses its Status: the stores around the working
\* directory and the Config on disk vary
InitStatus ==
    /\ cwd = WorkDir
    /\ envDir = EnvUnset
    /\ platform = "linux"
    /\ homeKnown = TRUE
    /\ \E kX, kY \in {"absent", "file", "dir"}, local \in LocalKinds :
          /\ local # "none" => kY = "dir"
          /\ fs = WithLocal(Marked(Marked(BaseFs, <<"x">>, kX), WorkDir, kY), local)
    /\ stack = <<>>
    /\ call = Idle
    /\ ret = NoRet
    /\ calls = 0
    /\ sets = 0
    /\ status = NoStatus
    /\ seenAll = {}
    /\ seenNow = {}
    /\ before = fs
    /\ configDisk \in {Config("python3", Null, "git", "en", Null),
                       Config("~", "docker", Null, Null, "rust")}
    /\ ProbeIdle
    /\ LangIdle

NextStatus ==
    \/ StatusLoad
    \/ StatusSave
    \/ SetPythonExecutable
    \/ SetDockerComposeExecutable
    \/ SetGitExecutable
    \/ SetSpokenLanguage
    \/ SetProgrammingLanguage
    \/ SetWorkshop
    \/ SetLesson

\* toolchain discovery
Spec == InitProbe /\ [][NextProbe]_vars

\* toolchain discovery where the flow is polled whenever it can go on: it
\* starts when called, and it is resumed once the awaited child has exited.
\* Whether a child exits is the host's choice and is not forced.
FlowRuns ==
    \/ FindPythonBadMin
    \/ FindPythonBegin
    \/ PythonProbeDone
    \/ LauncherProbeDone
    \/ FindComposeBadMin
    \/ FindComposeBegin
    \/ PluginProbeDone
    \/ StandaloneProbeDone

SpecLive == InitProbe /\ [][NextProbe]_vars /\ WF_vars(FlowRuns)

\* workshop directories and the session status
SpecFs == InitFs /\ [][NextFs]_vars

\* language aggregation over the merged workshops
SpecLang == InitLang /\ [][NextLang]_vars

\* the session status
SpecStatus == InitStatus /\ [][NextStatus]_vars

FsTypeOk == WellFormed(fs)


\* ------------------------------------------------------------------------
\* Properties of the workshop directories
\* ------------------------------------------------------------------------

\* the platform-standard data directory of (io, libp2p, workshop)
PlatformStandardDir == ProjectDataDir(platform, homeKnown, <<"io", "libp2p", "workshop">>)

\* C6: application::data_dir returns the value of WORKSHOPS_DIR when it is
\* set and non-empty, and the platform-standard directory when it is unset
\* or empty
C6_OverrideOnlyWhenSetAndNonEmpty ==
    (ret.op = "application_data_dir" /\ ret.ok) =>
        IF envDir.set /\ envDir.value # EmptyPath
        THEN ret.path = envDir.value
        ELSE PlatformStandardDir.some /\ ret.path = PlatformStandardDir.path

\* C6 failing state: WORKSHOPS_DIR is set to the empty string and the call
\* returned
C6_EmptyOverrideReturned ==
    ret.op = "application_data_dir" /\ ret.ok /\ envDir = EnvSet(EmptyPath)

\* the directories from the working directory up to the root that hold a
\* directory named .workshops
StoreHolders(f) ==
    {d \in Prefixes(cwd) :
        Append(d, ".workshops") \in DOMAIN f /\ f[Append(d, ".workshops")].kind = "dir"}

Nearest(ds) == CHOOSE d \in ds : \A e \in ds : Len(e) <= Len(d)

\* C7: workshops::data_dir returns D/.workshops for the nearest directory D
\* of the chain cwd, parent(cwd), ..., root that holds a directory named
\* .workshops, an entry of that name that is not a directory being passed
\* over, and None, without error, when there is no such D
C7_UpwardSearchReturnsNearestStore ==
    ret.op = "workshops_data_dir" =>
        /\ ret.ok
        /\ IF StoreHolders(fs) = {} THEN ~ret.some
           ELSE /\ ret.some
                /\ ret.path = AbsPath(Append(Nearest(StoreHolders(fs)), ".workshops"))

\* C7 witness: .workshops in the working directory is a regular file, the
\* parent has a .workshops directory, and the search returned the parent's
C7_Witness ==
    /\ ret.op = "workshops_data_dir"
    /\ IsFile(fs, cwd, AbsPath(Append(cwd, ".workshops")))
    /\ Len(cwd) = 2
    /\ ret.some /\ ret.path = AbsPath(Append(Parent(cwd), ".workshops"))

CwdStore == AbsPath(Append(cwd, ".workshops"))

\* C8 as stated: every resolution of the local workspace store made in the
\* session, by the upward search or by init_data_dir, yields one path
C8_EveryResolutionYieldsOnePath == Cardinality(seenAll) <= 1

\* C8 amended: the resolutions made by Status::load, Status::save and the
\* upward search with no init_data_dir or application::data_dir call in
\* between yield one path, and a successful init_data_dir returns
\* <cwd>/.workshops, which the upward search yields from then on
C8_OnePathBetweenInits ==
    /\ Cardinality(seenNow) <= 1
    /\ (ret.op = "init" /\ ret.ok) =>
          /\ ret.path = CwdStore
          /\ seenNow = {CwdStore}
          /\ WorkshopsDataDir(fs, cwd) = SomePath(CwdStore)
    /\ (~call.active /\ IsDir(fs, cwd, CwdStore)) => seenNow \subseteq {CwdStore}

\* C8 witness: an ancestor's store was resolved first, then init_data_dir
\* created the store of the working directory and returned it
C8_Witness ==
    /\ ret.op = "init" /\ ret.ok
    /\ Cardinality(seenAll) = 2
    /\ ~IsDir(before, cwd, CwdStore)

\* the application data store as application::data_dir resolves it
StoreChosen ==
    IF envDir.set /\ envDir.unicode THEN SomePath(envDir.value) ELSE PlatformStandardDir

\* the source and the target of the copy init_data_dir(w) makes
SourceOf(w) == Resolve(cwd, Join(StoreChosen.path, w))

TargetOf(w) == Append(Append(cwd, ".workshops"), w)

Under(a, q) == IsPrefix(a, q)

Rebase(q, a, b) == b \o SubSeq(q, Len(a) + 1, Len(q))

\* C9: when the store holds a directory W, init_data_dir(W) returns
\* <cwd>/.workshops, and <cwd>/.workshops/W then holds every file and
\* directory of the source tree at the same relative path, the files with
\* the contents they had in the source
C9_InitCopiesTheWorkshopTree ==
    (/\ ret.op = "init" /\ ret.ok
     /\ StoreChosen.some
     /\ IsDir(before, cwd, Join(StoreChosen.path, ret.arg))) =>
        /\ ret.path = CwdStore
        /\ \A q \in DOMAIN before :
              Under(SourceOf(ret.arg), q) =>
                  /\ Rebase(q, SourceOf(ret.arg), TargetOf(ret.arg)) \in DOMAIN fs
                  /\ fs[Rebase(q, SourceOf(ret.arg), TargetOf(ret.arg))] = before[q]

\* C9 failing state: the store is the local workspace store itself, and
\* init_data_dir returned Ok
C9_SelfCopyReturned ==
    /\ ret.op = "init" /\ ret.ok
    /\ SourceOf(ret.arg) = TargetOf(ret.arg)

\* the filesystem init_data_dir sees when it looks for the workshop: with
\* <cwd>/.workshops and the application data store directory created
AtLookup ==
    ApplicationDataDir(CreateDirAll(before, cwd, CwdStore).fs, cwd, envDir, platform, homeKnown).fs

NoWorkshopDir(w) == ~IsDir(AtLookup, cwd, Join(StoreChosen.path, w))

\* C10 as stated: when the store has no directory W, init_data_dir(W) fails
\* with WorkshopDataDirNotFound, creates no entry W under <cwd>/.workshops
\* and copies no file
C10_MissingWorkshopIsNotFound ==
    (ret.op = "init" /\ StoreChosen.some /\ NoWorkshopDir(ret.arg)) =>
        /\ ~ret.ok /\ ret.err = "WorkshopDataDirNotFound"
        /\ TargetOf(ret.arg) \in DOMAIN fs => TargetOf(ret.arg) \in DOMAIN before
        /\ \A q \in DOMAIN fs : fs[q].kind = "file" => (q \in DOMAIN before /\ before[q] = fs[q])

\* C10 amended: when the store has no directory W, init_data_dir(W) fails:
\* with the error of creating <cwd>/.workshops or of resolving the store
\* when one of these fails, and with WorkshopDataDirNotFound otherwise; it
\* copies nothing: no file is written, and the only directories made are
\* <cwd>/.workshops and the store directory with its ancestors
C10_MissingWorkshopFailsWithoutCopy ==
    (ret.op = "init" /\ StoreChosen.some /\ NoWorkshopDir(ret.arg)) =>
        LET r1 == CreateDirAll(before, cwd, CwdStore)
            r2 == CreateDirAll(r1.fs, cwd, StoreChosen.path)
        IN  /\ ~ret.ok
            /\ ret.err = IF ~r1.ok THEN r1.err
                         ELSE IF ~r2.ok THEN r2.err
                         ELSE "WorkshopDataDirNotFound"
            /\ \A q \in DOMAIN before : q \in DOMAIN fs /\ fs[q] = before[q]
            /\ \A q \in DOMAIN fs \ DOMAIN before :
                  /\ fs[q].kind = "dir"
                  /\ \/ IsPrefix(q, Resolve(cwd, CwdStore))
                     \/ IsPrefix(q, Resolve(cwd, StoreChosen.path))

\* C10 witness: the store holds a regular file named W, and init_data_dir(W)
\* failed with WorkshopDataDirNotFound
C10_Witness ==
    /\ ret.op = "init" /\ ret.err = "WorkshopDataDirNotFound"
    /\ StoreChosen.some
    /\ IsFile(before, cwd, Join(StoreChosen.path, ret.arg))


\* the entries strictly under the application data store in filesystem f
StoreEntries(f) ==
    {q \in DOMAIN f :
        IsPrefix(Resolve(cwd, StoreChosen.path), q) /\ q # Resolve(cwd, StoreChosen.path)}

\* C11: init_data_dir never changes the application data store: wherever the
\* store lies relative to the working directory, the entries under the store
\* and the contents of every file under it are the same after the call as
\* before it
C11_InitLeavesStoreUnchanged ==
    (ret.op = "init" /\ StoreChosen.some) =>
        /\ StoreEntries(fs) = StoreEntries(before)
        /\ \A q \in StoreEntries(before) : fs[q] = before[q]

\* C11 failing state: init_data_dir returned Ok and a file of the store that
\* had contents is now empty
C11_StoreFileTruncated ==
    /\ ret.op = "init" /\ ret.ok /\ StoreChosen.some
    /\ \E q \in StoreEntries(before) :
          /\ before[q].kind = "file" /\ before[q].data # <<>>
          /\ q \in DOMAIN fs /\ fs[q] = File(<<>>)


\* the local workspace store the upward search finds in f, if any
LocalStoreOf(f) ==
    IF StoreHolders(f) = {} THEN NoPath
    ELSE SomePath(AbsPath(Append(Nearest(StoreHolders(f)), ".workshops")))

\* the workshop names of the local workspace store, none if there is no store
LocalNames(f) ==
    IF LocalStoreOf(f).some THEN Subdirs(f, cwd, LocalStoreOf(f).path) ELSE {}

\* C12 as stated: the keys of the map all_workshops returns are the names of
\* the immediate subdirectories of the application data store and of the
\* local workspace store the upward search finds, and a name present in both
\* stores maps to the data loaded from the local workspace store
C12_KeysAreSubdirectoryNames ==
    (ret.op = "all_workshops" /\ ret.ok) =>
        /\ DOMAIN ret.map = Subdirs(fs, cwd, StoreChosen.path) \cup LocalNames(fs)
        /\ \A k \in DOMAIN ret.map :
              ret.map[k].path = IF k \in LocalNames(fs) THEN LocalStoreOf(fs).path
                                ELSE StoreChosen.path

\* C12 amended: the keys are those names converted to Unicode, a byte
\* sequence that is not Unicode being replaced by U+FFFD, and a key that
\* names a subdirectory of both stores maps to the data loaded from the
\* local workspace store
C12_KeysAreLossyNamesLocalWins ==
    (ret.op = "all_workshops" /\ ret.ok) =>
        LET appKeys == {ToStringLossy(n) : n \in Subdirs(fs, cwd, StoreChosen.path)}
            locKeys == {ToStringLossy(n) : n \in LocalNames(fs)}
        IN  /\ DOMAIN ret.map = appKeys \cup locKeys
            /\ \A k \in DOMAIN ret.map :
                  /\ ret.map[k].name = k
                  /\ ret.map[k].path = IF k \in locKeys THEN LocalStoreOf(fs).path
                                       ELSE StoreChosen.path

\* C12 witness: w1 is a workshop of both stores, the stores are different
\* directories, and the map returned holds the local one
C12_Witness ==
    /\ ret.op = "all_workshops" /\ ret.ok
    /\ "w1" \in Subdirs(fs, cwd, StoreChosen.path) \cap LocalNames(fs)
    /\ Resolve(cwd, StoreChosen.path) # Resolve(cwd, LocalStoreOf(fs).path)
    /\ ret.map["w1"].path = LocalStoreOf(fs).path


\* ------------------------------------------------------------------------
\* Properties of the language aggregations
\* ------------------------------------------------------------------------

StrictlyAscending(q) == \A i \in 1..(Len(q) - 1) : CodeOrd(q[i]) < CodeOrd(q[i + 1])

\* the spoken languages of the merged workshops
SpokenOf(m) == UNION {DOMAIN m[w] : w \in DOMAIN m}

\* the programming languages the merged workshops list for spoken language sp
ProgrammingFor(m, sp) ==
    UNION {Range(m[w][sp]) : w \in {v \in DOMAIN m : sp \in DOMAIN m[v]}}

ProgrammingOf(m) == UNION {ProgrammingFor(m, sp) : sp \in SpokenOf(m)}

\* C13: all_spoken_languages and all_programming_languages return a strictly
\* ascending sequence whose elements are exactly the languages of the merged
\* workshops, in whatever order the workshop map is iterated
C13_AggregatesAreSortedUnions ==
    phase = "returned" =>
        /\ fn = "all_spoken_languages" =>
              (StrictlyAscending(collected) /\ Range(collected) = SpokenOf(merged))
        /\ fn = "all_programming_languages" =>
              (StrictlyAscending(collected) /\ Range(collected) = ProgrammingOf(merged))

\* C13 witness: two workshops that share a spoken language and each have one
\* of their own, and all_spoken_languages returned all three in order
C13_Witness ==
    /\ phase = "returned" /\ fn = "all_spoken_languages"
    /\ Cardinality(DOMAIN merged) = 2
    /\ \E v, w \in DOMAIN merged :
          /\ DOMAIN merged[v] \cap DOMAIN merged[w] # {}
          /\ DOMAIN merged[v] \ DOMAIN merged[w] # {}
          /\ DOMAIN merged[w] \ DOMAIN merged[v] # {}
    /\ collected = <<"de", "en", "fr">>

\* C14: get_all_languages maps every spoken language of the merged workshops
\* to a strictly ascending list of exactly the programming languages the
\* workshops list for it, also when only one workshop has the spoken
\* language and lists them unsorted or twice
C14_EveryListIsSortedUnion ==
    (phase = "returned" /\ fn = "get_all_languages") =>
        /\ DOMAIN languages = SpokenOf(merged)
        /\ \A sp \in DOMAIN languages :
              /\ StrictlyAscending(languages[sp])
              /\ Range(languages[sp]) = ProgrammingFor(merged, sp)

\* C14 failing state: one workshop only supports a spoken language, and the
\* list returned for it is the workshop's own, which is not ascending
C14_SingleWorkshopListReturnedAsIs ==
    /\ phase = "returned" /\ fn = "get_all_languages"
    /\ \E sp \in DOMAIN languages :
          /\ Cardinality({w \in DOMAIN merged : sp \in DOMAIN merged[w]}) = 1
          /\ ~StrictlyAscending(languages[sp])


\* ------------------------------------------------------------------------
\* Properties of the session status
\* ------------------------------------------------------------------------

\* the serialized fields of a Status
SevenFields(st) ==
    <<st.python_executable, st.docker_compose_executable, st.git_executable,
      st.spoken_language, st.programming_language, st.workshop, st.lesson>>

C16_UpwardSearchChangesNothing ==
    ret.op = "workshops_data_dir" => fs = before

\* C16 witness: .workshops in the working directory is a regular file, no
\* directory up to the root holds a store, and the search returned None
C16_Witness ==
    /\ ret.op = "workshops_data_dir" /\ ret.ok /\ ~ret.some
    /\ IsFile(fs, cwd, CwdStore)
    /\ fs = before

ChildHung == pc = "wait" /\ Awaited.outcome = Hung

\* C18: a flow whose every probed child exits returns (found or not found);
\* once a probed child hangs, the flow stays suspended at that .await for
\* good: it never returns and launches no further candidate
C18_ReturnsUnlessAChildHangs ==
    /\ <>(pc = "done" \/ ChildHung)
    /\ [][ChildHung => (ChildHung' /\ probes' = probes /\ result' = NoResult)]_vars

\* C18 witness: the second candidate hangs after the first one has exited;
\* the flow has not returned
C18_Witness ==
    /\ ChildHung /\ Len(probes) = 2
    /\ probes[1].outcome.launch /\ probes[1].outcome # Hung
    /\ result = NoResult

\* the errors the step of the copy loop on entry n can end in
StepErrors(n) ==
    IF IsDir(fs, cwd, Join(Top.src, n))
    THEN {r.err : r \in {x \in {CopyTreeEnter(fs, cwd, Join(Top.src, n), Join(Top.tgt, n))} :
                            ~x.ok}}
    ELSE {r.err : r \in {x \in CopyOutcomes(fs, cwd, Join(Top.src, n), Join(Top.tgt, n)) :
                            ~x.ok}}

\* init_data_dir returns an error while its copy is under way
CopyFails == call.active /\ ~call'.active /\ ~ret'.ok

\* C19: when a step of the recursive copy fails, init_data_dir returns the
\* error of that step in the same step; every copy_tree is left, so no
\* further entry is copied and the step is not tried again; and the
\* filesystem is left as it was, with all that was copied before
C19_CopyFailureReturnsAtOnce ==
    /\ [](~call.active => stack = <<>>)
    /\ [][CopyFails =>
            /\ \E n \in Pendings : ret'.err \in StepErrors(n)
            /\ ret' = RetErr("init", call.workshop, ret'.err)
            /\ stack' = <<>>
            /\ fs' = fs]_vars

\* C19 witness: init_data_dir("w1") has failed with a filesystem error after
\* it had copied w1/a.txt, and the copy is still there
C19_Witness ==
    /\ ret.op = "init" /\ ~ret.ok /\ ret.arg = "w1"
    /\ ret.err \in {"Io:IsADirectory", "Io:NotADirectory", "Io:NameTooLong"}
    /\ ~call.active
    /\ fs # before
    /\ \E p \in DOMAIN fs : p \notin DOMAIN before /\ fs[p].kind = "file"

\* C20: after a successful application::data_dir the returned path is a
\* directory, and the call fails only with ApplicationDirsNotFound
C20_DataDirExistsOrDirsNotFound ==
    ret.op = "application_data_dir" =>
        IF ret.ok THEN IsDir(fs, cwd, ret.path)
        ELSE ret.err = "ApplicationDirsNotFound"

\* C20 failing state: application::data_dir returned the empty path, which
\* names no directory
C20_ReturnedPathIsNoDirectory ==
    /\ ret.op = "application_data_dir" /\ ret.ok
    /\ ret.path = EmptyPath
    /\ ~Exists(fs, cwd, ret.path) /\ ~IsDir(fs, cwd, ret.path)
    /\ fs = before

\* application::data_dir failed in create_dir_all
C20_CreateDirAllFailed ==
    /\ ret.op = "application_data_dir" /\ ~ret.ok
    /\ ret.err \in {"Io:NotADirectory", "Io:NameTooLong"}

\* apart from the empty override and the errors of create_dir_all, the
\* returned path is a directory and the failure is ApplicationDirsNotFound
C20_HoldsOtherwise ==
    (ret.op = "application_data_dir" /\ envDir # EnvSet(EmptyPath)) =>
        IF ret.ok THEN IsDir(fs, cwd, ret.path)
        ELSE ret.err \in {"ApplicationDirsNotFound", "Io:NotADirectory", "Io:NameTooLong"}

\* the setters that take a default flag, and the field each one sets
FlaggedSetters ==
    [set_python_executable |-> "python_executable",
     set_docker_compose_executable |-> "docker_compose_executable",
     set_git_executable |-> "git_executable",
     set_spoken_language |-> "spoken_language",
     set_programming_language |-> "programming_language"]

PlainSetters == [set_workshop |-> "workshop", set_lesson |-> "lesson"]

\* a setter has just been called
SetterCalled(op) == sets' = sets + 1 /\ ret'.op = op

\* C21: a setter with a default flag sets its Status field to the value
\* given, sets the same field of the Config exactly when default is true,
\* and leaves every other field of the Status and of the Config as it was;
\* set_workshop and set_lesson set their field and nothing else. No setter
\* writes a file.
C21_SettersChangeOnlyTheirField ==
    [][/\ \A op \in DOMAIN FlaggedSetters :
             SetterCalled(op) =>
                status' = [status EXCEPT
                             ![FlaggedSetters[op]] = ret'.arg,
                             !.config[FlaggedSetters[op]] =
                                 IF ret'.default THEN ret'.arg ELSE @]
       /\ \A op \in DOMAIN PlainSetters :
             SetterCalled(op) =>
                status' = [status EXCEPT ![PlainSetters[op]] = ret'.arg]
       /\ (\E op \in DOMAIN FlaggedSetters \cup DOMAIN PlainSetters : SetterCalled(op)) =>
             (fs' = fs /\ configDisk' = configDisk)]_vars

\* C21 witness: set_spoken_language("fr", false) was called on a loaded
\* Status: the Status holds fr and the Config keeps another default
C21_Witness ==
    /\ ret.op = "set_spoken_language" /\ ret.arg = "fr" /\ ~ret.default
    /\ status.loaded
    /\ status.spoken_language = "fr"
    /\ status.config.spoken_language # "fr"
    /\ sets = 1

\* the last call was an init_data_dir that failed with WorkshopDataDirNotFound
InitNotFound == ret.op = "init" /\ ~ret.ok /\ ret.err = "WorkshopDataDirNotFound"

\* the entries below <cwd>/.workshops
InCwdStore(f) ==
    {q \in DOMAIN f : IsPrefix(Resolve(cwd, CwdStore), q) /\ q # Resolve(cwd, CwdStore)}

\* the upward search that follows a failed init returns <cwd>/.workshops
SearchAfterInitNotFound ==
    [][(InitNotFound /\ ret'.op = "workshops_data_dir") =>
          (ret'.some /\ ret'.path = CwdStore)]_vars

\* C22 as stated: after an init that failed with WorkshopDataDirNotFound,
\* <cwd>/.workshops is a directory, empty if the init created it, and the
\* upward search that follows returns it
C22_FailedInitLeavesEmptyStore ==
    /\ [](InitNotFound =>
            /\ IsDir(fs, cwd, CwdStore)
            /\ Resolve(cwd, CwdStore) \notin DOMAIN before => InCwdStore(fs) = {})
    /\ SearchAfterInitNotFound

\* C22 amended: after an init that failed with WorkshopDataDirNotFound,
\* <cwd>/.workshops is a directory and the upward search that follows
\* returns it; if the init created it, it holds nothing but the
\* application data store and its ancestors, which application::data_dir
\* created when the store is configured below <cwd>/.workshops, and is
\* empty otherwise
C22_FailedInitLeavesStoreDirectory ==
    /\ [](InitNotFound =>
            /\ IsDir(fs, cwd, CwdStore)
            /\ WorkshopsDataDir(fs, cwd) = SomePath(CwdStore)
            /\ Resolve(cwd, CwdStore) \notin DOMAIN before =>
                  \A q \in InCwdStore(fs) :
                     /\ fs[q].kind = "dir"
                     /\ StoreChosen.some
                     /\ IsPrefix(q, Resolve(cwd, StoreChosen.path)))
    /\ SearchAfterInitNotFound

\* C22 witness: the upward search found the store of an ancestor; then an
\* init failed with WorkshopDataDirNotFound, having created an empty
\* <cwd>/.workshops, which the upward search now returns
C22_Witness ==
    /\ InitNotFound
    /\ WorkshopsDataDir(before, cwd).some
    /\ WorkshopsDataDir(before, cwd).path # CwdStore
    /\ IsDir(fs, cwd, CwdStore) /\ InCwdStore(fs) = {}
    /\ WorkshopsDataDir(fs, cwd) = SomePath(CwdStore)

\* Status::save is called
SaveCalled == calls' = calls + 1 /\ ret'.op = "save"

\* Status::load is called right after a save that found no store and
\* returned Ok
LoadAfterStorelessSave ==
    /\ ret.op = "save" /\ ret.ok /\ ~ret.some
    /\ calls' = calls + 1 /\ ret'.op = "load"

\* a Status that holds the defaults of config and no workshop and no lesson
IsDefaultsOf(st, config) ==
    /\ <<st.python_executable, st.docker_compose_executable, st.git_executable,
         st.spoken_language, st.programming_language>>
       = <<config.python_executable, config.docker_compose_executable,
           config.git_executable, config.spoken_language, config.programming_language>>
    /\ st.workshop = Null /\ st.lesson = Null
    /\ st.config = config

\* C23 as stated: with no local workspace store found, Status::save writes
\* no file and creates no directory, saves the Config and returns success,
\* and the Status::load that follows returns the Config defaults with
\* workshop and lesson unset
C23_StorelessSaveSucceeds ==
    [][/\ (SaveCalled /\ ~LocalStoreOf(fs).some) =>
             /\ fs' = fs
             /\ ret'.ok
             /\ configDisk' = status.config
       /\ LoadAfterStorelessSave =>
             /\ ret'.ok
             /\ IsDefaultsOf(status', status.config)]_vars

\* C23 amended: with no local workspace store found, Status::save writes no
\* file and creates no directory; it returns success and has saved the
\* Config unless saving the Config fails, which is its only failure; a
\* Status::load that follows and succeeds returns the saved Config defaults
\* with workshop and lesson unset, and it fails only when loading the
\* Config fails
C23_StorelessSaveKeepsOnlyConfig ==
    [][/\ (SaveCalled /\ ~LocalStoreOf(fs).some) =>
             /\ fs' = fs
             /\ ~ret'.some
             /\ IF ret'.ok THEN configDisk' = status.config
                ELSE ret'.err = "Config" /\ configDisk' = configDisk
       /\ LoadAfterStorelessSave =>
             IF ret'.ok THEN ~ret'.some /\ IsDefaultsOf(status', status.config)
             ELSE ret'.err = "Config" /\ status' = status]_vars

\* C23 witness: a Status with workshop w2 set was saved where no store was
\* found: save returned Ok, no file was written and the Config was saved
C23_Witness ==
    /\ ret.op = "save" /\ ret.ok /\ ~ret.some
    /\ status.workshop = "w2"
    /\ ~LocalStoreOf(fs).some
    /\ fs = before
    /\ configDisk = status.config

\* the directory the copy in progress writes to, <cwd>/.workshops/W
CopyRoot == Resolve(cwd, Join(call.workshops_dir, call.workshop))

\* C24: the copy of init_data_dir never descends into the directory it
\* writes to: no copy_tree in progress has its source at or below
\* <cwd>/.workshops/W, so the copy ends with the source tree
C24_CopyNeverReadsWhatItWrote ==
    call.active =>
        \A i \in 1..Len(stack) : ~IsPrefix(CopyRoot, Resolve(cwd, stack[i].src))

\* C24 failing state: the working directory lies inside the workshop's
\* directory in the store, and a nested copy_tree has as its source a
\* directory below <cwd>/.workshops/W, which this copy created
C24_CopyDescendsIntoItsTarget ==
    /\ call.active
    /\ \E i \in 2..Len(stack) :
          /\ IsPrefix(CopyRoot, Resolve(cwd, stack[i].src))
          /\ Resolve(cwd, stack[i].src) \notin DOMAIN before
    /\ IsPrefix(Resolve(cwd, stack[1].src), cwd)

\* the copy into its own source ends only where a path gets too long
C24_SelfCopyEndsInNameTooLong ==
    (/\ ret.op = "init" /\ ~call.active
     /\ StoreChosen.some
     /\ IsPrefix(Resolve(cwd, Join(StoreChosen.path, ret.arg)), cwd)
     /\ IsDir(before, cwd, Join(StoreChosen.path, ret.arg))
     /\ ~IsFile(before, cwd, CwdStore)
     /\ ~IsFile(before, cwd, Join(CwdStore, ret.arg)))
        => (~ret.ok /\ ret.err = "Io:NameTooLong")

====
